---------------------------- MODULE Spec2Model ----------------------------
(***************************************************************************)
(* Model of the tools of RimSharpDB.  tools/db_updater.py: the local scan  *)
(* and merge, the semaphore-bounded remote lookups, the enrichment applier *)
(* and the save of the database.  tools/obsolete_replacements.py: the      *)
(* maintenance of replacements.json against the database.                  *)
(* tools/rule_manager.py: the editing of the three rule lists of a mod.    *)
(* tools/replace_update.py: the version key and the greatest version of    *)
(* the up-to-date rule.                                                    *)
(*                                                                         *)
(* A Python str is a sequence of one-character strings, so that splitting, *)
(* int() and the version pattern are computed and not assumed.             *)
(***************************************************************************)
EXTENDS Integers, Sequences, FiniteSets, TLC

(***************************************************************************)
(* Bounds of the model.                                                    *)
(***************************************************************************)
\* number of mod folders of the scanned directory in the update-run model
MaxFolders == 2
\* number of worklist items in the fetch-phase model (above the limit)
FetchWorklistLen == 11
\* number of times the merge is applied to one observation in the merge model
MergeApplications == 2
\* number of successive runs of the replacements maintenance script
MaxPruneRuns == 2
\* number of add, edit and remove operations on the rule lists
MaxRuleOps == 3
\* length of the longest version string given to get_version_key
MaxVersionLen == 4
\* length of the longest "versions" list a maximum is taken of
MaxVersions == 3
\* number of successive update runs
MaxUpdateRuns == 2

\* clicks on "Fetch Info" in the replacement manager
MaxFetchClicks == 3

(***************************************************************************)
(* Program constants.                                                      *)
(***************************************************************************)
MAX_CONCURRENT_REQUESTS == 10

(***************************************************************************)
(* Python strings and int().                                               *)
(***************************************************************************)
DigitChars == <<"0", "1", "2", "3", "4", "5", "6", "7", "8", "9">>

Digits == {DigitChars[i] : i \in 1..10}

DigitVal(c) == (CHOOSE i \in 1..10 : DigitChars[i] = c) - 1

\* the whitespace int() strips
Whitespace == {" ", "\n"}

\* str.split('.'): the parts between the dots, at least one part
RECURSIVE SplitDots(_)
SplitDots(s) ==
    IF \A i \in 1..Len(s) : s[i] # "."
    THEN <<s>>
    ELSE LET d == CHOOSE i \in 1..Len(s) :
                      s[i] = "." /\ \A j \in 1..(i - 1) : s[j] # "."
         IN  <<SubSeq(s, 1, d - 1)>> \o SplitDots(SubSeq(s, d + 1, Len(s)))

RECURSIVE StripLeft(_)
StripLeft(s) ==
    IF s # <<>> /\ Head(s) \in Whitespace THEN StripLeft(Tail(s)) ELSE s

RECURSIVE StripRight(_)
StripRight(s) ==
    IF s # <<>> /\ s[Len(s)] \in Whitespace
    THEN StripRight(SubSeq(s, 1, Len(s) - 1))
    ELSE s

Strip(s) == StripRight(StripLeft(s))

\* the text of an int() literal without its sign
Unsigned(s) ==
    IF s # <<>> /\ Head(s) \in {"+", "-"} THEN Tail(s) ELSE s

\* int(s) succeeds: optional whitespace, optional sign, digits with single
\* underscores between them
IntParses(s) ==
    LET u == Unsigned(Strip(s))
    IN  /\ u # <<>>
        /\ \A i \in 1..Len(u) : u[i] \in Digits \cup {"_"}
        /\ u[1] # "_"
        /\ u[Len(u)] # "_"
        /\ \A i \in 1..(Len(u) - 1) : ~(u[i] = "_" /\ u[i + 1] = "_")

RECURSIVE DigitsValue(_)
DigitsValue(u) ==
    IF u = <<>> THEN 0
    ELSE IF u[Len(u)] = "_" THEN DigitsValue(SubSeq(u, 1, Len(u) - 1))
    ELSE 10 * DigitsValue(SubSeq(u, 1, Len(u) - 1)) + DigitVal(u[Len(u)])

IntValue(s) ==
    LET t == Strip(s)
    IN  IF t # <<>> /\ Head(t) = "-"
        THEN 0 - DigitsValue(Unsigned(t))
        ELSE DigitsValue(Unsigned(t))

(***************************************************************************)
(* VersionKey of the updater.                                              *)
(***************************************************************************)
\* the Python value None where a version string is expected
None == <<"None">>

\* get_version_key: the tuple of the int() of every dotted part, or the
\* sentinel (0,) when a part does not parse or the value has no split()
get_version_key(version_str) ==
    IF version_str = None THEN <<0>>
    ELSE LET parts == SplitDots(version_str)
         IN  IF \A i \in 1..Len(parts) : IntParses(parts[i])
             THEN [i \in 1..Len(parts) |-> IntValue(parts[i])]
             ELSE <<0>>

\* faulty variant of KeyLess: the shorter tuple is padded with zeros, so that
\* a key and its extension by zeros compare equal
KeyLess_ZeroPadded(a, b) ==
    LET n == IF Len(a) < Len(b) THEN Len(b) ELSE Len(a)
        at(t, i) == IF i <= Len(t) THEN t[i] ELSE 0
    IN  \E i \in 1..n :
            /\ \A j \in 1..(i - 1) : at(a, j) = at(b, j)
            /\ at(a, i) < at(b, i)

\* Python's order on tuples of int: a < b
KeyLess(a, b) ==
    \E i \in 1..(Len(b)) :
        /\ \A j \in 1..(i - 1) : j <= Len(a) /\ a[j] = b[j]
        /\ i - 1 <= Len(a)
        /\ (i > Len(a) \/ a[i] < b[i])

KeyLeq(a, b) == a = b \/ KeyLess(a, b)

\* get_version_key(max(versions, key=get_version_key)) of a non-empty set
MaxVersionKey(versions) ==
    get_version_key(CHOOSE v \in versions :
        \A w \in versions : ~KeyLess(get_version_key(v), get_version_key(w)))

\* a list is in ascending VersionKey order
IsSortedByKey(list) ==
    \A i \in 1..(Len(list) - 1) :
        KeyLeq(get_version_key(list[i]), get_version_key(list[i + 1]))

\* set(list)
SetOf(list) == {list[i] : i \in 1..Len(list)}

\* faulty variant of SortedLists: list(a_set) without the sort
SortedLists_Unsorted(a_set) ==
    {list \in [1..Cardinality(a_set) -> a_set] : SetOf(list) = a_set}

\* sorted(list(a_set), key=get_version_key): the iteration order of a set of
\* str is not fixed, so elements of equal key may come out in either order
SortedLists(a_set) ==
    {list \in [1..Cardinality(a_set) -> a_set] :
        SetOf(list) = a_set /\ IsSortedByKey(list)}

\* sorted(a_list, key=get_version_key): stable, duplicates kept
RECURSIVE StableSort(_)
StableSort(list) ==
    IF list = <<>> THEN <<>>
    ELSE LET init == StableSort(SubSeq(list, 1, Len(list) - 1))
             x    == list[Len(list)]
             \* x goes after every element whose key is not greater
             n    == Cardinality({i \in 1..Len(init) :
                        ~KeyLess(get_version_key(x), get_version_key(init[i]))})
         IN  SubSeq(init, 1, n) \o <<x>> \o SubSeq(init, n + 1, Len(init))

\* VERSION_REGEX.match: ^\d+\.\d+(\.\d+)?$ where $ also matches before one
\* final newline
VERSION_REGEX_match(tag) ==
    LET body  == IF tag # <<>> /\ tag[Len(tag)] = "\n"
                 THEN SubSeq(tag, 1, Len(tag) - 1) ELSE tag
        parts == SplitDots(body)
    IN  /\ Len(parts) \in {2, 3}
        /\ \A i \in 1..Len(parts) :
               /\ parts[i] # <<>>
               /\ \A j \in 1..Len(parts[i]) : parts[i][j] \in Digits

\* filter_api_version_tags
filter_api_version_tags(tags) ==
    StableSort(SelectSeq(tags, VERSION_REGEX_match))


(***************************************************************************)
(* Data of the update run.                                                 *)
(***************************************************************************)
V14 == <<"1", ".", "4">>

\* the text 1.5 followed by a line feed, as a tag value may carry it
V15LF == <<"1", ".", "5", "\n">>

V15 == <<"1", ".", "5">>

V16 == <<"1", ".", "6">>

NotAVersion == <<"n", "o", "t", "a", "v", "e", "r", "s", "i", "o", "n">>

\* names of the numbered sub-directories of the mods directory; the folder
\* name is the steam_id of the mod in it
FolderNames ==
    <<"111", "222", "333", "444", "555", "666", "777", "888", "999",
      "1010", "1111", "1212", "1313", "1414">>

PackageIds == {"a.b", "c.d"}

\* supportedVersions lists a manifest may carry
ObservedVersionLists == {<<>>, <<V15>>, <<V16, V15>>}

\* extract_mod_info_from_xml returned None
\* the "data" dict of a parsed manifest is the record that is inserted: it
\* has no "published" key yet
NewData(versions) ==
    [name |-> "New Name", authors |-> "New Author", versions |-> versions,
     published |-> "unset"]

\* extract_mod_info_from_xml returned None (no manifest, no packageId, or a
\* parse error)
NoInfo == [package_id |-> "", steam_id |-> "", data |-> NewData(<<>>)]

\* what extract_mod_info_from_xml can return for the folder
LocalModInfos(folder) ==
    {[package_id |-> p, steam_id |-> folder, data |-> NewData(v)] :
        p \in PackageIds, v \in ObservedVersionLists}

StoredRecord(versions, published) ==
    [name |-> "Old Name", authors |-> "Old Author", versions |-> versions,
     published |-> published]

\* version lists found in a database written by earlier runs
StoredVersionLists == {<<>>, <<V14>>, <<V14, V15>>, <<V16, V15>>}

EmptyDB == <<>>

\* dict assignment d[k] = v
Put(d, k, v) == [x \in (DOMAIN d) \cup {k} |-> IF x = k THEN v ELSE d[x]]

\* "mods" of the databases the run may find on disk: empty, or a record for
\* the first folder's mod and a record of the same package under another
\* steam_id
InitialDatabases ==
    {EmptyDB} \cup
    {Put(Put(EmptyDB, <<"a.b", FolderNames[1]>>, StoredRecord(v, "True")),
         <<"a.b", "4242">>, StoredRecord(<<V15>>, "False")) :
        v \in StoredVersionLists}

\* a tag value that is a JSON number and not a string, as {"tag": 16}
TagNumber == <<"<int>">>

\* the answer to a lookup: an exception raised by the request, or the HTTP
\* status and the "publishedfiledetails" of the body. In a "tags" array a tag
\* object without a tag value (or with an empty one) is written <<>>; tag
\* values are strings or TagNumber.
FoundResponse(raw_tags) ==
    [raises |-> "", status |-> 200,
     details |-> <<[result |-> 1, tags |-> raw_tags]>>]

\* the ways a lookup can end, in a fixed order
ResponseList ==
    << [raises |-> "", status |-> 500, details |-> <<>>],
       FoundResponse(<<V15, V16, NotAVersion>>),
       [raises |-> "", status |-> 200, details |-> <<>>],
       [raises |-> "TimeoutError", status |-> 0, details |-> <<>>],
       FoundResponse(<<V16, V15LF, <<>>, V15>>),
       [raises |-> "", status |-> 200,
        details |-> <<[result |-> 9, tags |-> <<>>]>>],
       [raises |-> "ClientError", status |-> 0, details |-> <<>>] >>

\* the mod is found and none of its tags is a version
FoundNoVersionTags == FoundResponse(<<NotAVersion>>)

\* the mod is found and one of its tag values is a number
FoundNumberTag == FoundResponse(<<V15, TagNumber>>)

\* the position of a folder name in FolderNames
FolderIndex(sid) == CHOOSE i \in 1..Len(FolderNames) : FolderNames[i] = sid

\* the answers the service may give for a steam_id in the update-run model:
\* between them the folders meet every way a lookup can end
RunResponses(sid) ==
    IF FolderIndex(sid) % 2 = 1
    THEN {ResponseList[2], ResponseList[1], ResponseList[6], ResponseList[4],
          FoundNoVersionTags}
    ELSE {ResponseList[5], ResponseList[3], ResponseList[7], FoundNumberTag}

NoResponse == [raises |-> "pending", status |-> 0, details |-> <<>>]

\* the api_result None
NoResult == [present |-> FALSE, tags |-> <<>>]

\* fetch_steam_details without the semaphore: the (steam_id, api_result) pair
\* computed from the response, None on every failure
fetch_result(steam_id, response) ==
    IF response.raises # "" THEN <<steam_id, NoResult>>
    ELSE IF response.status # 200 THEN <<steam_id, NoResult>>
    ELSE IF response.details = <<>> \/ response.details[1].result # 1
         THEN <<steam_id, NoResult>>
    ELSE <<steam_id,
           [present |-> TRUE,
            tags |-> SelectSeq(response.details[1].tags,
                               LAMBDA t : t # <<>>)]>>

\* a message of the queue q
Msg(type, text, n) == [type |-> type, text |-> text, n |-> n]


BATCH_SIZE == 10

\* the permutations of 1..n
Orders(n) ==
    {o \in [1..n -> 1..n] : \A i, j \in 1..n : o[i] = o[j] => i = j}

(***************************************************************************)
(* State of one update run.                                                *)
(***************************************************************************)
VARIABLES
    db_file,                 \* DB_JSON_FILE on disk: state and "mods"
    remote,                  \* steam_id -> answers the remote service may give
    pc,                      \* position of the worker thread
    db_data,                 \* mods_db in memory: <<pkg_id, steam_id>> -> record
    total_mods,              \* len(mod_folders)
    scan_counter,
    local_mod_info,          \* the manifest of the folder scanned last
    last_branch,             \* branch of the merge taken for that folder
    mods_to_fetch_from_api,  \* worklist of (steam_id, reference to the record)
    versions_updated_count,
    mods_added_count,
    semaphore,               \* free slots of asyncio.Semaphore
    pending_tasks,           \* tasks not yet past the semaphore, in start order
    ref_map,                 \* steam_id -> reference to the record
    task_state,              \* per worklist index: waiting, inflight, ...
    response,                \* per worklist index: what the service answered
    task_result,             \* per worklist index: (steam_id, api_result)
    api_counter,
    successful_api_updates,
    failed_api_updates,
    apply_hits,              \* record -> number of results applied to it
    q,                       \* messages put on the queue
    replacements_file,       \* replacements.json on disk: state and "mods"
    prune_pc,                \* position of maintain_replacements_file
    prune_runs,              \* runs of the maintenance script so far
    steam_id_lookup,         \* steam_id -> record of the database
    original_mod_entries,    \* "mods" of replacements.json as loaded
    entry_index,             \* entries of the loop done so far
    kept_mod_entries,
    obsolete_mods_info,
    printed,                 \* what the script printed about each entry
    trees,                   \* rows of loadBefore_tree, loadAfter_tree and
                             \* incompatibilities_tree of the rules manager
    messagebox,              \* the warning the last operation showed
    last_op,                 \* the last operation on the lists and its input
    rule_ops,                \* operations on the rule lists so far
    version_arg,             \* the value a get_version_key is called with
    version_key,             \* what each script's get_version_key gave for it
    versions_arg,            \* the "versions" list a maximum is taken of
    max_version,             \* what each script's maximum gave for it
    update_runs,             \* the number of the update run, from 1
    original_mod,            \* ModReplacerApp.original_mod
    replacement_mod,         \* ModReplacerApp.replacement_mod
    managing_existing_relationship,
    replacer_queue,          \* ModReplacerApp.queue
    fetch_clicks             \* clicks on a "Fetch Info" button so far

vars ==
    <<db_file, remote, pc, db_data, total_mods, scan_counter, local_mod_info,
      last_branch, mods_to_fetch_from_api, versions_updated_count,
      mods_added_count, semaphore, pending_tasks, ref_map, task_state, response,
      task_result, api_counter, successful_api_updates, failed_api_updates,
      apply_hits, q, replacements_file, prune_pc, prune_runs, steam_id_lookup,
      original_mod_entries, entry_index, kept_mod_entries, obsolete_mods_info,
      printed, trees, messagebox, last_op, rule_ops, version_arg, version_key,
      versions_arg, max_version, update_runs, original_mod, replacement_mod,
      managing_existing_relationship, replacer_queue, fetch_clicks>>

\* the variables of maintain_replacements_file
pruner_vars ==
    <<replacements_file, prune_pc, prune_runs, steam_id_lookup,
      original_mod_entries, entry_index, kept_mod_entries, obsolete_mods_info,
      printed>>

\* the variables of RulesManagerApp
rules_vars == <<trees, messagebox, last_op, rule_ops>>

\* the variables of a call of get_version_key
parse_vars == <<version_arg, version_key, versions_arg, max_version>>

\* the variables of ModReplacerApp
replacer_vars ==
    <<original_mod, replacement_mod, managing_existing_relationship,
      replacer_queue, fetch_clicks>>

\* what the steps of one update run leave alone: the variables of the other
\* tools and the number of the run
tools_vars ==
    <<pruner_vars, rules_vars, parse_vars, update_runs, replacer_vars>>

\* the variables of the updater's worker, the database file apart
updater_vars ==
    <<remote, pc, db_data, total_mods, scan_counter, local_mod_info,
      last_branch, mods_to_fetch_from_api, versions_updated_count,
      mods_added_count, semaphore, pending_tasks, ref_map, task_state, response,
      task_result, api_counter, successful_api_updates, failed_api_updates,
      apply_hits, q, update_runs, replacer_vars>>

scan_vars == <<total_mods, scan_counter, local_mod_info, last_branch>>

merge_vars ==
    <<mods_to_fetch_from_api, versions_updated_count, mods_added_count>>

fetch_vars ==
    <<semaphore, pending_tasks, ref_map, task_state, response, task_result>>

apply_vars ==
    <<api_counter, successful_api_updates, failed_api_updates, apply_hits>>

\* original_mod and replacement_mod when no mod is loaded: None
NoModInfo ==
    [steam_id |-> "None", versions |-> <<>>, is_valid_on_steam |-> FALSE]

\* ModReplacerApp.__init__, lines 69-72
ReplacerStart ==
    /\ original_mod = NoModInfo
    /\ replacement_mod = NoModInfo
    /\ managing_existing_relationship = FALSE
    /\ replacer_queue = <<>>
    /\ fetch_clicks = 0

\* the worker's variables before async_worker starts
WorkerStart ==
    /\ pc = "load"
    /\ db_data = EmptyDB
    /\ total_mods = 0
    /\ scan_counter = 0
    /\ local_mod_info = NoInfo
    /\ last_branch = "none"
    /\ mods_to_fetch_from_api = <<>>
    /\ versions_updated_count = 0
    /\ mods_added_count = 0
    /\ semaphore = 0
    /\ pending_tasks = <<>>
    /\ ref_map = <<>>
    /\ task_state = <<>>
    /\ response = <<>>
    /\ task_result = <<>>
    /\ api_counter = 0
    /\ successful_api_updates = 0
    /\ failed_api_updates = 0
    /\ apply_hits = <<>>
    /\ q = <<>>

\* the maintenance script is not running and there is no replacements.json
PrunerStart ==
    /\ replacements_file = [state |-> "missing", mods |-> <<>>]
    /\ prune_pc = "start"
    /\ prune_runs = 0
    /\ steam_id_lookup = <<>>
    /\ original_mod_entries = <<>>
    /\ entry_index = 0
    /\ kept_mod_entries = <<>>
    /\ obsolete_mods_info = <<>>
    /\ printed = <<>>

\* the rules manager has no rule loaded
NoMessage == [title |-> "", list_type |-> ""]

\* an operation on a list: its kind, the list, whether the dialog gave a
\* result, the lowercased package id of the result and, for an edit, of the
\* selected row
Operation(kind, list_type, present, package_id, old_package_id) ==
    [kind |-> kind, list_type |-> list_type, present |-> present,
     package_id |-> package_id, old_package_id |-> old_package_id]

NoOperation == Operation("", "", FALSE, <<>>, <<>>)

\* the outcome of a call: the tuple it returned or the exception it raised
Returned(key) == [raised |-> "", key |-> key]

Raised(exception) == [raised |-> exception, key |-> <<>>]

NotCalled == [raised |-> "<not called>", key |-> <<>>]

\* no get_version_key was called
ParserStart ==
    /\ version_arg = None
    /\ version_key = [db_updater |-> NotCalled,
                      obsolete_replacements |-> NotCalled,
                      replace_update |-> NotCalled]
    /\ versions_arg = <<>>
    /\ max_version = [db_updater |-> NotCalled,
                      obsolete_replacements |-> NotCalled,
                      replace_update |-> NotCalled]

RulesManagerStart ==
    /\ trees = [loadBefore |-> <<>>, loadAfter |-> <<>>,
                incompatibilities |-> <<>>]
    /\ messagebox = NoMessage
    /\ last_op = NoOperation
    /\ rule_ops = 0

\* the database file is missing, cannot be read as JSON (an empty file, or a
\* file whose records are all there with a syntax error somewhere), or is
\* as an earlier run saved it
DatabaseFiles ==
    {[state |-> "missing", mods |-> EmptyDB]} \cup
    {[state |-> "corrupt", mods |-> d] : d \in InitialDatabases} \cup
    {[state |-> "ok", mods |-> d] : d \in InitialDatabases}

Init ==
    /\ db_file \in DatabaseFiles
    /\ remote = [sid \in SetOf(FolderNames) |-> RunResponses(sid)]
    /\ WorkerStart
    /\ PrunerStart
    /\ RulesManagerStart
    /\ ParserStart
    /\ update_runs = 1
    /\ ReplacerStart

(***************************************************************************)
(* async_worker: load and scan.                                            *)
(***************************************************************************)
\* load_json_db: the "mods" the run works on, and the message it logs
load_json_db(file) ==
    IF file.state = "missing"
    THEN [mods |-> EmptyDB, msgs |-> <<Msg("log", "db not found", 0)>>]
    ELSE IF file.state = "ok"
    THEN [mods |-> file.mods, msgs |-> <<>>]
    ELSE [mods |-> EmptyDB, msgs |-> <<Msg("error_log", "could not load", 0)>>]

\* db_updater.py 151-161
Load ==
    /\ pc = "load"
    /\ LET loaded == load_json_db(db_file)
       IN  /\ db_data' = loaded.mods
           /\ q' = q \o loaded.msgs \o
                   <<Msg("log", "scanning", 0),
                     Msg("scan_progress_config", "", MaxFolders)>>
    /\ total_mods' = MaxFolders
    /\ scan_counter' = 0
    /\ pc' = "scan"
    /\ UNCHANGED <<db_file, remote, tools_vars, local_mod_info, last_branch, merge_vars,
                   fetch_vars, apply_vars>>

\* lines 151-157: the database is loaded and mods_dir.iterdir() raises
\* OSError (the directory is gone or cannot be read); the exception leaves
\* async_worker
ScanDirFails ==
    /\ pc = "load"
    /\ LET loaded == load_json_db(db_file)
       IN  /\ db_data' = loaded.mods
           /\ q' = q \o loaded.msgs \o <<Msg("log", "scanning", 0)>>
    /\ pc' = "raised"
    /\ UNCHANGED <<db_file, remote, tools_vars, scan_vars, merge_vars,
                   fetch_vars, apply_vars>>

\* the progress message at the end of a loop iteration (208-209, 238-239)
ProgressUpdate(type, counter, total) ==
    IF counter % BATCH_SIZE = 0 \/ counter = total
    THEN <<Msg(type, "",
               IF counter % BATCH_SIZE = 0 THEN BATCH_SIZE
               ELSE counter % BATCH_SIZE)>>
    ELSE <<>>

\* faulty variant of ShouldReplace: only the "fewer versions" rule, a newer
\* maximum is not looked at
ShouldReplace_FewerOnly(local_versions, db_versions) ==
    /\ MaxVersionKey(local_versions) = MaxVersionKey(db_versions)
    /\ Cardinality(local_versions) < Cardinality(db_versions)

\* faulty variant of ShouldReplace: only the "newer maximum" rule
ShouldReplace_NewerOnly(local_versions, db_versions) ==
    KeyLess(MaxVersionKey(db_versions), MaxVersionKey(local_versions))

\* faulty variant of ShouldReplace: any difference of the sets replaces
ShouldReplace_AnyDifference(local_versions, db_versions) ==
    local_versions # db_versions

\* lines 187-196: the existing record's versions are to be replaced
ShouldReplace(local_versions, db_versions) ==
    LET max_local_ver_key == MaxVersionKey(local_versions)
        max_db_ver_key    == MaxVersionKey(db_versions)
        should_replace ==
            \/ KeyLess(max_db_ver_key, max_local_ver_key)
            \/ /\ max_local_ver_key = max_db_ver_key
               /\ Cardinality(local_versions) < Cardinality(db_versions)
    IN  should_replace /\ local_versions # db_versions

\* faulty variant of merge_existing: the empty stored set is tested before
\* the empty observed set
merge_existing_StoredFirst(db_entry, versions) ==
    LET local_versions == SetOf(versions)
        db_versions    == SetOf(db_entry.versions)
    IN  IF db_versions = {}
        THEN {[action |-> "populate", versions |-> sorted] :
                 sorted \in SortedLists(local_versions)}
        ELSE IF local_versions = {}
        THEN {[action |-> "no_local_versions", versions |-> db_entry.versions]}
        ELSE IF ShouldReplace(local_versions, db_versions)
        THEN {[action |-> "replace", versions |-> sorted] :
                 sorted \in SortedLists(local_versions)}
        ELSE {[action |-> "keep", versions |-> db_entry.versions]}

\* lines 170-199: what the merge makes of an existing record and the
\* observed versions; a set, one outcome per order sorted() may give
merge_existing(db_entry, versions) ==
    LET local_versions == SetOf(versions)
        db_versions    == SetOf(db_entry.versions)
    IN  IF local_versions = {}
        THEN {[action |-> "no_local_versions", versions |-> db_entry.versions]}
        ELSE IF db_versions = {}
        THEN {[action |-> "populate", versions |-> sorted] :
                 sorted \in SortedLists(local_versions)}
        ELSE IF ShouldReplace(local_versions, db_versions)
        THEN {[action |-> "replace", versions |-> sorted] :
                 sorted \in SortedLists(local_versions)}
        ELSE {[action |-> "keep", versions |-> db_entry.versions]}

\* faulty variant of InsertedRecord: the versions are sorted on insertion
InsertedRecord_Sorted(info) ==
    [info.data EXCEPT !.versions = StableSort(info.data.versions)]

\* faulty variant of InsertedRecord: the record is stored without the
\* observed versions
InsertedRecord_NoVersions(info) == [info.data EXCEPT !.versions = <<>>]

\* line 205: the record stored for a new mod
InsertedRecord(info) == info.data

\* one iteration of the scan loop (162-209) on the manifest info
ScanBody(info) ==
    LET key  == <<info.package_id, info.steam_id>>
        tick == ProgressUpdate("scan_progress_update", scan_counter + 1,
                               total_mods)
    IN  /\ local_mod_info' = info
        /\ IF info = NoInfo
           THEN /\ last_branch' = "no_info"
                /\ q' = q \o tick
                /\ UNCHANGED <<db_data, merge_vars>>
           ELSE IF key \in DOMAIN db_data
           THEN \E out \in merge_existing(db_data[key], info.data.versions) :
                  /\ last_branch' = out.action
                  /\ db_data' = [db_data EXCEPT ![key].versions = out.versions]
                  /\ versions_updated_count' =
                       IF out.action \in {"populate", "replace"}
                       THEN versions_updated_count + 1
                       ELSE versions_updated_count
                  \* the first two branches end in "continue"
                  /\ q' = q \o
                       (IF out.action = "populate"
                        THEN <<Msg("log", "populating", 0)>>
                        ELSE IF out.action = "replace"
                        THEN <<Msg("log", "replacing", 0)>>
                        ELSE <<>>) \o
                       (IF out.action \in {"no_local_versions", "populate"}
                        THEN <<>> ELSE tick)
                  /\ UNCHANGED <<mods_to_fetch_from_api, mods_added_count>>
           ELSE \* new packageId or new steamId
                /\ mods_added_count' = mods_added_count + 1
                /\ db_data' = Put(db_data, key, InsertedRecord(info))
                /\ mods_to_fetch_from_api' =
                     Append(mods_to_fetch_from_api,
                            [steam_id |-> info.steam_id, ref |-> key])
                /\ q' = q \o tick
                /\ last_branch' = "insert"
                /\ UNCHANGED versions_updated_count

\* the next folder of mod_folders is scanned and merged
ScanFolder ==
    /\ pc = "scan"
    /\ scan_counter < total_mods
    /\ scan_counter' = scan_counter + 1
    /\ \E info \in LocalModInfos(FolderNames[scan_counter + 1]) \cup {NoInfo} :
         ScanBody(info)
    /\ UNCHANGED <<db_file, remote, tools_vars, pc, total_mods, fetch_vars, apply_vars>>


(***************************************************************************)
(* async_worker: the fetch phase.                                          *)
(***************************************************************************)
\* ref_map = {sid: ref for sid, ref in worklist}: the last entry of a
\* steam_id wins
MakeRefMap(worklist) ==
    [sid \in {worklist[i].steam_id : i \in 1..Len(worklist)} |->
        worklist[CHOOSE i \in 1..Len(worklist) :
                    /\ worklist[i].steam_id = sid
                    /\ \A j \in (i + 1)..Len(worklist) :
                           worklist[j].steam_id # sid].ref]

\* lines 212-224: the semaphore, one task per worklist item, the ref_map.
\* as_completed starts the tasks from a set of the coroutines, so the order
\* in which they start is any order.
StartFetch ==
    /\ pc = "scan"
    /\ scan_counter = total_mods
    /\ mods_to_fetch_from_api # <<>>
    /\ LET n == Len(mods_to_fetch_from_api)
       IN  /\ q' = q \o <<Msg("log", "found new mods", n),
                          Msg("api_progress_config", "", n)>>
           /\ pending_tasks' \in Orders(n)
           /\ task_state' = [i \in 1..n |-> "waiting"]
           /\ response' = [i \in 1..n |-> NoResponse]
           /\ task_result' = [i \in 1..n |-> <<"", NoResult>>]
    /\ semaphore' = MAX_CONCURRENT_REQUESTS
    /\ ref_map' = MakeRefMap(mods_to_fetch_from_api)
    /\ api_counter' = 0
    /\ successful_api_updates' = 0
    /\ failed_api_updates' = 0
    /\ apply_hits' = [k \in DOMAIN db_data |-> 0]
    /\ local_mod_info' = NoInfo
    /\ last_branch' = "none"
    /\ pc' = "fetch"
    /\ UNCHANGED <<db_file, remote, tools_vars, db_data, total_mods, scan_counter,
                   merge_vars>>

\* faulty variant of Acquire: the request is posted without waiting for a
\* free slot
Acquire_Ungated(i) ==
    /\ pc = "fetch"
    /\ task_state[i] = "waiting"
    /\ pending_tasks # <<>>
    /\ Head(pending_tasks) = i
    /\ semaphore' = semaphore - 1
    /\ pending_tasks' = Tail(pending_tasks)
    /\ task_state' = [task_state EXCEPT ![i] = "inflight"]
    /\ UNCHANGED <<db_file, remote, tools_vars, pc, db_data, scan_vars, merge_vars,
                   ref_map, response, task_result, apply_vars, q>>

\* fetch_steam_details, "async with semaphore": the task takes a slot and
\* posts its request
Acquire(i) ==
    /\ pc = "fetch"
    /\ task_state[i] = "waiting"
    /\ pending_tasks # <<>>
    /\ Head(pending_tasks) = i
    /\ semaphore > 0
    /\ semaphore' = semaphore - 1
    /\ pending_tasks' = Tail(pending_tasks)
    /\ task_state' = [task_state EXCEPT ![i] = "inflight"]
    /\ UNCHANGED <<db_file, remote, tools_vars, pc, db_data, scan_vars, merge_vars,
                   ref_map, response, task_result, apply_vars, q>>

\* faulty variant of ReleasedSlots: the slot is released at the end of the
\* success path only
ReleasedSlots_OnSuccess(resp) ==
    IF fetch_result("", resp)[2].present THEN 1 ELSE 0

\* the slots freed when a lookup leaves "async with semaphore"
ReleasedSlots(resp) == 1

\* faulty variant of Complete: a failing lookup cancels the lookups still
\* in flight, which end with no result
Complete_AbortsSiblings(i) ==
    /\ pc = "fetch"
    /\ task_state[i] = "inflight"
    /\ \E resp \in remote[mods_to_fetch_from_api[i].steam_id] :
         LET own     == fetch_result(mods_to_fetch_from_api[i].steam_id, resp)
             aborted == IF own[2].present THEN {}
                        ELSE {j \in DOMAIN task_state \ {i} :
                                 task_state[j] = "inflight"}
         IN  /\ response' =
                  [j \in DOMAIN response |->
                     IF j = i THEN resp
                     ELSE IF j \in aborted
                     THEN [raises |-> "CancelledError", status |-> 0,
                           details |-> <<>>]
                     ELSE response[j]]
             /\ task_result' =
                  [j \in DOMAIN task_result |->
                     IF j = i THEN own
                     ELSE IF j \in aborted
                     THEN <<mods_to_fetch_from_api[j].steam_id, NoResult>>
                     ELSE task_result[j]]
             /\ task_state' =
                  [j \in DOMAIN task_state |->
                     IF j = i \/ j \in aborted THEN "completed"
                     ELSE task_state[j]]
             /\ semaphore' = semaphore + 1 + Cardinality(aborted)
    /\ UNCHANGED <<db_file, remote, tools_vars, pc, db_data, scan_vars, merge_vars,
                   pending_tasks, ref_map, apply_vars, q>>

\* fetch_steam_details, lines 296-305: the request ends (answer, exception
\* or timeout), the task returns its pair and leaves the semaphore
Complete(i) ==
    /\ pc = "fetch"
    /\ task_state[i] = "inflight"
    /\ \E resp \in remote[mods_to_fetch_from_api[i].steam_id] :
         /\ response' = [response EXCEPT ![i] = resp]
         /\ task_result' =
              [task_result EXCEPT
                 ![i] = fetch_result(mods_to_fetch_from_api[i].steam_id, resp)]
         /\ semaphore' = semaphore + ReleasedSlots(resp)
    /\ task_state' = [task_state EXCEPT ![i] = "completed"]
    /\ UNCHANGED <<db_file, remote, tools_vars, pc, db_data, scan_vars, merge_vars,
                   pending_tasks, ref_map, apply_vars, q>>

\* faulty variant of ApplyResult: a failed lookup clears the versions
ApplyResult_ClearsOnFailure(mod_ref_record, api_result) ==
    IF api_result.present
    THEN [mod_ref_record EXCEPT
            !.versions = filter_api_version_tags(api_result.tags),
            !.published = "True"]
    ELSE [mod_ref_record EXCEPT !.versions = <<>>, !.published = "False"]

\* faulty variant of ApplyResult: the record is marked published whatever the
\* lookup gave
ApplyResult_AlwaysPublished(mod_ref_record, api_result) ==
    IF api_result.present
    THEN [mod_ref_record EXCEPT
            !.versions = filter_api_version_tags(api_result.tags),
            !.published = "True"]
    ELSE [mod_ref_record EXCEPT !.published = "True"]

\* lines 229-236: the record after the api_result is applied to it
ApplyResult(mod_ref_record, api_result) ==
    IF api_result.present
    THEN [mod_ref_record EXCEPT
            !.versions = filter_api_version_tags(api_result.tags),
            !.published = "True"]
    ELSE [mod_ref_record EXCEPT !.published = "False"]

\* faulty variant of ModRef: the results are matched to the worklist in
\* submission order, not by steam_id
ModRef_BySubmissionOrder(steam_id) ==
    mods_to_fetch_from_api[api_counter + 1].ref

\* line 228: the record the result of a steam_id is written to
ModRef(steam_id) == ref_map[steam_id]

\* VERSION_REGEX.match(tag) of line 288 raises TypeError for a tag that is
\* not a string: the exception filter_api_version_tags ends with, "" for none
filter_api_version_tags_raises(tags) ==
    IF \E i \in 1..Len(tags) : tags[i] = TagNumber THEN "TypeError" ELSE ""

\* one iteration of the as_completed loop (225-239) on a completed task; an
\* exception of line 231 leaves the loop and async_worker
Apply(i) ==
    /\ pc = "fetch"
    /\ task_state[i] = "completed"
    /\ LET steam_id   == task_result[i][1]
           api_result == task_result[i][2]
           mod_ref    == ModRef(steam_id)
       IN  IF api_result.present
              /\ filter_api_version_tags_raises(api_result.tags) # ""
           THEN /\ pc' = "raised"
                /\ task_state' = [task_state EXCEPT ![i] = "raised"]
                /\ UNCHANGED <<db_data, apply_hits, successful_api_updates,
                               failed_api_updates, q>>
           ELSE /\ db_data' =
                     [db_data EXCEPT ![mod_ref] = ApplyResult(@, api_result)]
                /\ apply_hits' = [apply_hits EXCEPT ![mod_ref] = @ + 1]
                /\ IF api_result.present
                   THEN /\ successful_api_updates' = successful_api_updates + 1
                        /\ UNCHANGED failed_api_updates
                   ELSE /\ failed_api_updates' = failed_api_updates + 1
                        /\ UNCHANGED successful_api_updates
                /\ q' = q \o ProgressUpdate("api_progress_update",
                                            api_counter + 1,
                                            Len(mods_to_fetch_from_api))
                /\ task_state' = [task_state EXCEPT ![i] = "applied"]
                /\ UNCHANGED pc
    /\ api_counter' = api_counter + 1
    /\ response' = [response EXCEPT ![i] = NoResponse]
    /\ task_result' = [task_result EXCEPT ![i] = <<"", NoResult>>]
    /\ UNCHANGED <<db_file, remote, tools_vars, scan_vars, merge_vars, semaphore,
                   pending_tasks, ref_map>>

\* faulty variant of WorkerFailed: the fatal error is logged and no "done" is
\* put on the queue (the put is in the try block, not in "finally")
WorkerFailed_NoDone ==
    /\ pc = "raised"
    /\ task_state' =
         [j \in DOMAIN task_state |->
            IF task_state[j] \in {"waiting", "inflight", "completed"}
            THEN "cancelled" ELSE task_state[j]]
    /\ pending_tasks' = <<>>
    /\ semaphore' =
         semaphore + Cardinality({j \in DOMAIN task_state :
                                     task_state[j] = "inflight"})
    /\ q' = q \o <<Msg("error_log", "fatal error in the worker thread", 0)>>
    /\ pc' = "failed"
    /\ UNCHANGED <<db_file, remote, tools_vars, db_data, scan_vars, merge_vars,
                   ref_map, response, task_result, apply_vars>>

\* faulty variant of WorkerFailed: the database as far as it was reconciled
\* is written when the worker stops on an exception
WorkerFailed_SavesPartial ==
    /\ pc = "raised"
    /\ task_state' =
         [j \in DOMAIN task_state |->
            IF task_state[j] \in {"waiting", "inflight", "completed"}
            THEN "cancelled" ELSE task_state[j]]
    /\ pending_tasks' = <<>>
    /\ semaphore' =
         semaphore + Cardinality({j \in DOMAIN task_state :
                                     task_state[j] = "inflight"})
    /\ q' = q \o <<Msg("error_log", "fatal error in the worker thread", 0),
                   Msg("done", "", 0)>>
    /\ pc' = "failed"
    /\ db_file' = [state |-> "ok", mods |-> db_data]
    /\ UNCHANGED <<remote, tools_vars, db_data, scan_vars, merge_vars,
                   ref_map, response, task_result, apply_vars>>

\* run_update_logic, lines 144-147: asyncio.run cancels the tasks that are
\* left and raises the exception of async_worker, which is logged; "done" is
\* put on the queue. The database is not saved.
WorkerFailed ==
    /\ pc = "raised"
    /\ task_state' =
         [j \in DOMAIN task_state |->
            IF task_state[j] \in {"waiting", "inflight", "completed"}
            THEN "cancelled" ELSE task_state[j]]
    /\ pending_tasks' = <<>>
    /\ semaphore' =
         semaphore + Cardinality({j \in DOMAIN task_state :
                                     task_state[j] = "inflight"})
    /\ q' = q \o <<Msg("error_log", "fatal error in the worker thread", 0),
                   Msg("done", "", 0)>>
    /\ pc' = "failed"
    /\ UNCHANGED <<db_file, remote, tools_vars, db_data, scan_vars, merge_vars,
                   ref_map, response, task_result, apply_vars>>

\* lines 241-243: every task was consumed, the fetch summary is logged
FinishFetch ==
    /\ pc = "fetch"
    /\ api_counter = Len(mods_to_fetch_from_api)
    /\ q' = q \o <<Msg("log", "api fetch summary", 0),
                   Msg("log", "enriched", successful_api_updates),
                   Msg("log", "failed", failed_api_updates)>>
    /\ pc' = "save"
    /\ UNCHANGED <<db_file, remote, tools_vars, db_data, scan_vars, merge_vars,
                   fetch_vars, apply_vars>>

\* line 245: nothing to fetch
NoFetch ==
    /\ pc = "scan"
    /\ scan_counter = total_mods
    /\ mods_to_fetch_from_api = <<>>
    /\ q' = q \o <<Msg("log", "no new mods", 0)>>
    /\ local_mod_info' = NoInfo
    /\ last_branch' = "none"
    /\ pc' = "save"
    /\ UNCHANGED <<db_file, remote, tools_vars, db_data, total_mods, scan_counter,
                   merge_vars, fetch_vars, apply_vars>>

(***************************************************************************)
(* async_worker: save and summary.                                         *)
(***************************************************************************)
\* save_json_db, open(filepath, 'w'): the file is truncated, or cannot be
\* opened
SaveOpen ==
    /\ pc = "save"
    /\ \/ /\ db_file' = [state |-> "truncated", mods |-> EmptyDB]
          /\ pc' = "dump"
          /\ UNCHANGED q
       \/ /\ q' = q \o <<Msg("error_log", "could not save", 0)>>
          /\ pc' = "summary"
          /\ UNCHANGED db_file
    /\ UNCHANGED <<remote, tools_vars, db_data, scan_vars, merge_vars, fetch_vars,
                   apply_vars>>

\* save_json_db, json.dump and close
SaveDump ==
    /\ pc = "dump"
    /\ db_file' = [state |-> "ok", mods |-> db_data]
    /\ q' = q \o <<Msg("log", "saved", 0)>>
    /\ pc' = "summary"
    /\ UNCHANGED <<remote, tools_vars, db_data, scan_vars, merge_vars, fetch_vars,
                   apply_vars>>

\* lines 248-250 and the "done" of run_update_logic
Summary ==
    /\ pc = "summary"
    /\ q' = q \o <<Msg("log", "final summary", 0),
                   Msg("log", "updated", versions_updated_count),
                   Msg("log", "added", mods_added_count),
                   Msg("done", "", 0)>>
    /\ pc' = "done"
    /\ UNCHANGED <<db_file, remote, tools_vars, db_data, scan_vars, merge_vars,
                   fetch_vars, apply_vars>>

Next ==
    \/ Load
    \/ ScanFolder
    \/ StartFetch
    \/ \E i \in DOMAIN task_state : Acquire(i)
    \/ \E i \in DOMAIN task_state : Complete(i)
    \/ \E i \in DOMAIN task_state : Apply(i)
    \/ FinishFetch
    \/ NoFetch
    \/ SaveOpen
    \/ SaveDump
    \/ Summary
    \/ WorkerFailed
    \/ ScanDirFails

Spec == Init /\ [][Next]_vars

(***************************************************************************)
(* Successive update runs: the tool is started again on the database the   *)
(* run before it saved, from a mods directory without a database file.     *)
(* The manifests of the folders may have changed between the runs.         *)
(***************************************************************************)
\* start_update_process after a run ended: a new worker thread
NextRun ==
    /\ pc \in {"done", "failed"}
    /\ update_runs < MaxUpdateRuns
    /\ update_runs' = update_runs + 1
    /\ pc' = "load"
    /\ db_data' = EmptyDB
    /\ total_mods' = 0
    /\ scan_counter' = 0
    /\ local_mod_info' = NoInfo
    /\ last_branch' = "none"
    /\ mods_to_fetch_from_api' = <<>>
    /\ versions_updated_count' = 0
    /\ mods_added_count' = 0
    /\ semaphore' = 0
    /\ pending_tasks' = <<>>
    /\ ref_map' = <<>>
    /\ task_state' = <<>>
    /\ response' = <<>>
    /\ task_result' = <<>>
    /\ api_counter' = 0
    /\ successful_api_updates' = 0
    /\ failed_api_updates' = 0
    /\ apply_hits' = <<>>
    /\ q' = <<>>
    /\ UNCHANGED <<db_file, remote, pruner_vars, rules_vars, parse_vars,
                   replacer_vars>>

InitRuns ==
    /\ db_file = [state |-> "missing", mods |-> EmptyDB]
    /\ remote = [sid \in SetOf(FolderNames) |-> RunResponses(sid)]
    /\ WorkerStart
    /\ PrunerStart
    /\ RulesManagerStart
    /\ ParserStart
    /\ update_runs = 1
    /\ ReplacerStart

NextRuns == Next \/ NextRun

SpecRuns == InitRuns /\ [][NextRuns]_vars


(***************************************************************************)
(* fetch_all on a worklist longer than the concurrency limit: the tasks of *)
(* a run that found no database file and scanned FetchWorklistLen folders  *)
(* of new mods, from the moment the tasks are created.                     *)
(***************************************************************************)
FetchItems == 1..FetchWorklistLen

FetchKey(i) == <<IF i % 2 = 1 THEN "a.b" ELSE "c.d", FolderNames[i]>>

\* mixes of answers over the worklist: every lookup is found, every lookup
\* fails (in each of the ways in turn), found and failing lookups mixed
FetchMixes == {"found", "failing", "mixed"}

FetchResponse(mix, i) ==
    IF mix = "found" THEN ResponseList[2 + 3 * (i % 2)]
    ELSE IF mix = "failing"
    THEN LET failing == SelectSeq(ResponseList,
                                  LAMBDA r : ~fetch_result("", r)[2].present)
         IN  failing[1 + (i % Len(failing))]
    ELSE ResponseList[1 + (i % Len(ResponseList))]

\* orders in which the tasks start
FetchStartOrders ==
    {[i \in FetchItems |-> i], [i \in FetchItems |-> FetchWorklistLen + 1 - i]}

RECURSIVE ScanTicks(_, _)
ScanTicks(counter, total) ==
    IF counter = 0 THEN <<>>
    ELSE ScanTicks(counter - 1, total) \o
         ProgressUpdate("scan_progress_update", counter, total)

InitFetch ==
    /\ db_file = [state |-> "missing", mods |-> EmptyDB]
    /\ \E mix \in FetchMixes :
         remote = [sid \in SetOf(FolderNames) |->
                     IF FolderIndex(sid) \in FetchItems
                     THEN {FetchResponse(mix, FolderIndex(sid))}
                     ELSE {}]
    /\ pc = "fetch"
    /\ db_data = [k \in {FetchKey(i) : i \in FetchItems} |-> NewData(<<V15>>)]
    /\ total_mods = FetchWorklistLen
    /\ scan_counter = FetchWorklistLen
    /\ local_mod_info = NoInfo
    /\ last_branch = "none"
    /\ mods_to_fetch_from_api =
         [i \in FetchItems |->
            [steam_id |-> FolderNames[i], ref |-> FetchKey(i)]]
    /\ versions_updated_count = 0
    /\ mods_added_count = FetchWorklistLen
    /\ semaphore = MAX_CONCURRENT_REQUESTS
    /\ pending_tasks \in FetchStartOrders
    /\ ref_map = MakeRefMap(mods_to_fetch_from_api)
    /\ task_state = [i \in FetchItems |-> "waiting"]
    /\ response = [i \in FetchItems |-> NoResponse]
    /\ task_result = [i \in FetchItems |-> <<"", NoResult>>]
    /\ api_counter = 0
    /\ successful_api_updates = 0
    /\ failed_api_updates = 0
    /\ apply_hits = [k \in {FetchKey(i) : i \in FetchItems} |-> 0]
    /\ PrunerStart
    /\ RulesManagerStart
    /\ ParserStart
    /\ update_runs = 1
    /\ ReplacerStart
    /\ q = <<Msg("log", "db not found", 0), Msg("log", "scanning", 0),
             Msg("scan_progress_config", "", FetchWorklistLen)>> \o
           ScanTicks(FetchWorklistLen, FetchWorklistLen) \o
           <<Msg("log", "found new mods", FetchWorklistLen),
             Msg("api_progress_config", "", FetchWorklistLen)>>

\* the steps of the fetch_steam_details tasks
NextFetch ==
    \/ \E i \in DOMAIN task_state : Acquire(i)
    \/ \E i \in DOMAIN task_state : Complete(i)

SpecFetch == InitFetch /\ [][NextFetch]_vars

\* the event loop runs every task that can run, and every request ends (at
\* the latest by its timeout)
FairSpecFetch == SpecFetch /\ WF_vars(NextFetch)


(***************************************************************************)
(* The merge of lines 168-206 as a function of the stored state and of one *)
(* observation: the loop body is applied to the same observation           *)
(* MergeApplications times, from a database as load_json_db returned it.   *)
(***************************************************************************)
\* a second spelling of 1.5: the same VersionKey, another string
V105 == <<"1", ".", "0", "5">>

\* version lists of the stored record and of the observation: empty, one and
\* several versions, unsorted, a repeated entry, equal keys, an unparseable
\* entry
MergeVersionLists ==
    {<<>>, <<V14>>, <<V15>>, <<V16>>, <<V14, V15>>, <<V16, V15>>,
     <<V15, V15>>, <<V15, V105>>, <<V105>>, <<NotAVersion>>,
     <<NotAVersion, V15>>, <<V14, V15, V16>>}

MergeKey == <<"a.b", FolderNames[1]>>

\* the record of the observed mod is absent (the database is empty or holds
\* the package under another steam_id only), or stored with any version list
MergeDatabases ==
    {EmptyDB, Put(EmptyDB, <<"a.b", "4242">>, StoredRecord(<<V15>>, "False"))}
    \cup {Put(EmptyDB, MergeKey, StoredRecord(v, "True")) :
             v \in MergeVersionLists}

MergeInfos ==
    {[package_id |-> MergeKey[1], steam_id |-> MergeKey[2],
      data |-> NewData(v)] : v \in MergeVersionLists}

InitMerge ==
    /\ \E d \in MergeDatabases :
         /\ db_file = [state |-> "ok", mods |-> d]
         /\ db_data = d
    /\ remote = [sid \in SetOf(FolderNames) |-> RunResponses(sid)]
    /\ pc = "scan"
    /\ total_mods = MergeApplications
    /\ scan_counter = 0
    /\ local_mod_info = NoInfo
    /\ last_branch = "none"
    /\ mods_to_fetch_from_api = <<>>
    /\ versions_updated_count = 0
    /\ mods_added_count = 0
    /\ semaphore = 0
    /\ pending_tasks = <<>>
    /\ ref_map = <<>>
    /\ task_state = <<>>
    /\ response = <<>>
    /\ task_result = <<>>
    /\ api_counter = 0
    /\ successful_api_updates = 0
    /\ failed_api_updates = 0
    /\ apply_hits = <<>>
    /\ q = <<Msg("log", "scanning", 0),
             Msg("scan_progress_config", "", MergeApplications)>>
    /\ PrunerStart
    /\ RulesManagerStart
    /\ ParserStart
    /\ update_runs = 1
    /\ ReplacerStart

\* the loop body on an observation: any observation the first time, the same
\* observation again afterwards
MergeObservation ==
    /\ pc = "scan"
    /\ scan_counter < total_mods
    /\ scan_counter' = scan_counter + 1
    /\ \E info \in MergeInfos :
         /\ scan_counter > 0 => info = local_mod_info
         /\ ScanBody(info)
    /\ UNCHANGED <<db_file, remote, tools_vars, pc, total_mods, fetch_vars, apply_vars>>

NextMerge == MergeObservation

SpecMerge == InitMerge /\ [][NextMerge]_vars


(***************************************************************************)
(* obsolete_replacements.py: VersionKey of the maintenance script.         *)
(***************************************************************************)
\* a character for which str.isdigit() holds and int() fails
SuperscriptTwo == "^2"

\* char.isdigit()
isdigit(char) == char \in Digits \cup {SuperscriptTwo}

\* get_version_key of obsolete_replacements.py: the string is reduced to its
\* digits and dots before it is split
obsolete_replacements_get_version_key(version_str) ==
    IF version_str = None \/ version_str = <<>> THEN <<0>>
    ELSE LET cleaned_str ==
                 SelectSeq(version_str, LAMBDA char : isdigit(char) \/ char = ".")
             parts == SplitDots(cleaned_str)
         IN  IF cleaned_str = <<>> THEN <<0>>
             ELSE IF \A i \in 1..Len(parts) : IntParses(parts[i])
             THEN [i \in 1..Len(parts) |-> IntValue(parts[i])]
             ELSE <<0>>

\* faulty variant of MaxKey: the later key wins
MaxKey_LaterWins(a, b) == b

\* max(a, b) of two keys: the first one unless the second is greater
MaxKey(a, b) == IF KeyLess(a, b) THEN b ELSE a

\* max((get_version_key(v) for v in versions), default=(0,))
RECURSIVE MaxOfKeys(_)
MaxOfKeys(versions) ==
    IF Len(versions) = 1
    THEN obsolete_replacements_get_version_key(versions[1])
    ELSE MaxKey(MaxOfKeys(SubSeq(versions, 1, Len(versions) - 1)),
                obsolete_replacements_get_version_key(versions[Len(versions)]))

\* get_max_version_key_from_list
get_max_version_key_from_list(versions) ==
    IF versions = <<>> THEN <<0>> ELSE MaxOfKeys(versions)

(***************************************************************************)
(* obsolete_replacements.py: the files the script reads.                   *)
(***************************************************************************)
V150 == <<"1", ".", "5", ".", "0">>

V15b == <<"1", ".", "5", "b">>

\* "versions" of the records the mapping refers to
PruneVersionLists ==
    {<<>>, <<V14>>, <<V15>>, <<V16, V15>>, <<V150>>, <<V15b, NotAVersion>>}

\* the steam_id of an original mod, of its replacement, of another original
\* and of a mod the database does not hold
OriginalId == "200"

ReplacementId == "201"

OtherOriginalId == "300"

AbsentId == "999"

\* an entry without the "ReplacementSteamId" key
Missing == "<missing>"

\* the records of db.json in the order of the file: package by package
DbFileOrder ==
    << <<"a.b", OriginalId>>, <<"c.d", ReplacementId>>,
       <<"e.f", OtherOriginalId>>, <<"g.h", OriginalId>> >>

\* "mods" of the databases the script may read: the original and the
\* replacement with any versions, with or without the other original, and
\* databases that hold the original's steam_id under two package ids
PruneDatabases ==
    LET base(vo, vr) ==
            Put(Put(EmptyDB, DbFileOrder[1], StoredRecord(vo, "True")),
                DbFileOrder[2], StoredRecord(vr, "True"))
    IN  {base(vo, vr) : vo \in PruneVersionLists, vr \in PruneVersionLists}
        \cup {Put(base(<<V16, V15>>, <<V15>>), DbFileOrder[3],
                  StoredRecord(<<V16>>, "False"))}
        \cup {Put(base(vo, <<V15>>), DbFileOrder[4],
                  StoredRecord(<<V14>>, "False")) : vo \in {<<V14>>, <<V16, V15>>}}

\* a value of the "mods" object of replacements.json
ReplacementInfo(replacement_steam_id) ==
    [ModName |-> "Old Mod", ReplacementSteamId |-> replacement_steam_id,
     ReplacementName |-> "New Mod"]

MappingEntry(original_steam_id, replacement_steam_id) ==
    [id |-> original_steam_id, info |-> ReplacementInfo(replacement_steam_id)]

\* "mods" of replacements.json, in the order of the file
PruneMappings ==
    {<<>>}
    \cup {<<MappingEntry(OriginalId, r)>> :
             r \in {ReplacementId, Missing, "", AbsentId}}
    \cup {<<MappingEntry(AbsentId, ReplacementId)>>,
          <<MappingEntry(OriginalId, ReplacementId),
            MappingEntry(OtherOriginalId, ReplacementId)>>,
          <<MappingEntry(OriginalId, ReplacementId),
            MappingEntry(ReplacementId, OriginalId)>>,
          <<MappingEntry(ReplacementId, OriginalId),
            MappingEntry(OriginalId, AbsentId)>>}

(***************************************************************************)
(* obsolete_replacements.py: maintain_replacements_file.                   *)
(***************************************************************************)
\* create_steam_id_lookup: the records by steam_id; of two records with one
\* steam_id the later one of the file stays
RECURSIVE FlattenRecords(_, _)
FlattenRecords(mods, keys) ==
    IF keys = <<>> THEN <<>>
    ELSE LET key  == keys[Len(keys)]
             rest == FlattenRecords(mods, SubSeq(keys, 1, Len(keys) - 1))
         IN  IF key \in DOMAIN mods THEN Put(rest, key[2], mods[key]) ELSE rest

create_steam_id_lookup(mods) == FlattenRecords(mods, DbFileOrder)

\* steam_id_lookup.get(steam_id) when the table has no such steam_id: None
NoRecord ==
    [name |-> "", authors |-> "", versions |-> <<>>, published |-> "None"]

\* steam_id_lookup.get(steam_id)
dict_get(lookup_table, steam_id) ==
    IF steam_id \in DOMAIN lookup_table THEN lookup_table[steam_id]
    ELSE NoRecord

\* faulty variant of Found: a steam_id the database does not hold is taken
\* for a record without versions
Found_AbsentAsEmpty(mod_db_entry) == TRUE

\* lines 90 and 95: "not mod_db_entry" is false
Found(mod_db_entry) == mod_db_entry # NoRecord

\* faulty variant of Obsolete: equal maxima make the entry obsolete too
Obsolete_NotStrict(original_max_version, replacement_max_version) ==
    ~KeyLess(original_max_version, replacement_max_version)

\* faulty variant of Obsolete: the comparison is turned round
Obsolete_Reversed(original_max_version, replacement_max_version) ==
    KeyLess(original_max_version, replacement_max_version)

\* line 109: original_max_version > replacement_max_version
Obsolete(original_max_version, replacement_max_version) ==
    KeyLess(replacement_max_version, original_max_version)

\* what the loop body decides for an entry, and the maxima it compared
Decision(what, original_max_version, replacement_max_version) ==
    [what |-> what, original_version |-> original_max_version,
     replacement_version |-> replacement_max_version]

\* faulty variant of EntryDecision: the entry that follows a removed entry is
\* not looked at and stays (entries deleted while the mapping is iterated)
EntryDecision_SkipsAfterRemoval(lookup_table, entry) ==
    LET original_mod_db_entry    == dict_get(lookup_table, entry.id)
        replacement_mod_db_entry ==
            dict_get(lookup_table, entry.info.ReplacementSteamId)
        original_max_version ==
            get_max_version_key_from_list(original_mod_db_entry.versions)
        replacement_max_version ==
            get_max_version_key_from_list(replacement_mod_db_entry.versions)
    IN  IF /\ entry_index > 0
           /\ obsolete_mods_info # <<>>
           /\ obsolete_mods_info[Len(obsolete_mods_info)].id =
                  original_mod_entries[entry_index].id
        THEN Decision("kept", <<0>>, <<0>>)
        ELSE IF entry.info.ReplacementSteamId \in {Missing, ""}
        THEN Decision("missing_reference", <<0>>, <<0>>)
        ELSE IF ~Found(original_mod_db_entry)
        THEN Decision("original_absent", <<0>>, <<0>>)
        ELSE IF ~Found(replacement_mod_db_entry)
        THEN Decision("replacement_absent", <<0>>, <<0>>)
        ELSE Decision(IF Obsolete(original_max_version, replacement_max_version)
                      THEN "obsolete" ELSE "kept",
                      original_max_version, replacement_max_version)

\* lines 77-118: what the loop body decides for one entry
EntryDecision(lookup_table, entry) ==
    LET replacement_steam_id     == entry.info.ReplacementSteamId
        original_mod_db_entry    == dict_get(lookup_table, entry.id)
        replacement_mod_db_entry == dict_get(lookup_table, replacement_steam_id)
        original_max_version ==
            get_max_version_key_from_list(original_mod_db_entry.versions)
        replacement_max_version ==
            get_max_version_key_from_list(replacement_mod_db_entry.versions)
    IN  IF replacement_steam_id \in {Missing, ""}
        THEN Decision("missing_reference", <<0>>, <<0>>)
        ELSE IF ~Found(original_mod_db_entry)
        THEN Decision("original_absent", <<0>>, <<0>>)
        ELSE IF ~Found(replacement_mod_db_entry)
        THEN Decision("replacement_absent", <<0>>, <<0>>)
        ELSE Decision(IF Obsolete(original_max_version, replacement_max_version)
                      THEN "obsolete" ELSE "kept",
                      original_max_version, replacement_max_version)

\* lines 54-74: the files are loaded and the lookup table is built; the
\* script returns when a file is missing or is not JSON
PruneLoad ==
    /\ prune_pc \in {"start", "returned"}
    /\ prune_runs < MaxPruneRuns
    /\ prune_runs' = prune_runs + 1
    /\ entry_index' = 0
    /\ kept_mod_entries' = <<>>
    /\ obsolete_mods_info' = <<>>
    /\ IF replacements_file.state = "ok" /\ db_file.state = "ok"
       THEN /\ steam_id_lookup' = create_steam_id_lookup(db_file.mods)
            /\ original_mod_entries' = replacements_file.mods
            /\ printed' = <<>>
            /\ prune_pc' = "analyze"
       ELSE /\ steam_id_lookup' = <<>>
            /\ original_mod_entries' = <<>>
            /\ printed' = <<[id |-> "", what |-> "load_error"]>>
            /\ prune_pc' = "returned"
    /\ UNCHANGED <<db_file, replacements_file, updater_vars, rules_vars,
                   parse_vars>>

\* faulty variant of PruneEntry: the "ReplacementName" of an entry that is
\* kept after the comparison is refreshed from the database
PruneEntry_RefreshesName ==
    /\ prune_pc = "analyze"
    /\ entry_index < Len(original_mod_entries)
    /\ entry_index' = entry_index + 1
    /\ LET entry    == original_mod_entries[entry_index + 1]
           decision == EntryDecision(steam_id_lookup, entry)
           replacement_mod_db_entry ==
               dict_get(steam_id_lookup, entry.info.ReplacementSteamId)
       IN  /\ printed' = IF decision.what \in {"obsolete", "kept"} THEN printed
                         ELSE Append(printed,
                                     [id |-> entry.id, what |-> decision.what])
           /\ IF decision.what = "obsolete"
              THEN /\ obsolete_mods_info' =
                        Append(obsolete_mods_info,
                               [id |-> entry.id, name |-> entry.info.ModName,
                                original_version |-> decision.original_version,
                                replacement_version |->
                                    decision.replacement_version])
                   /\ UNCHANGED kept_mod_entries
              ELSE /\ kept_mod_entries' =
                        Append(kept_mod_entries,
                               IF decision.what = "kept"
                               THEN [entry EXCEPT
                                       !.info.ReplacementName =
                                           replacement_mod_db_entry.name]
                               ELSE entry)
                   /\ UNCHANGED obsolete_mods_info
    /\ UNCHANGED <<db_file, replacements_file, prune_pc, prune_runs,
                   steam_id_lookup, original_mod_entries, updater_vars, rules_vars,
                   parse_vars>>

\* one iteration of the loop of lines 77-118
PruneEntry ==
    /\ prune_pc = "analyze"
    /\ entry_index < Len(original_mod_entries)
    /\ entry_index' = entry_index + 1
    /\ LET entry    == original_mod_entries[entry_index + 1]
           decision == EntryDecision(steam_id_lookup, entry)
       IN  /\ printed' = IF decision.what \in {"obsolete", "kept"} THEN printed
                         ELSE Append(printed,
                                     [id |-> entry.id, what |-> decision.what])
           /\ IF decision.what = "obsolete"
              THEN /\ obsolete_mods_info' =
                        Append(obsolete_mods_info,
                               [id |-> entry.id, name |-> entry.info.ModName,
                                original_version |-> decision.original_version,
                                replacement_version |->
                                    decision.replacement_version])
                   /\ UNCHANGED kept_mod_entries
              ELSE /\ kept_mod_entries' = Append(kept_mod_entries, entry)
                   /\ UNCHANGED obsolete_mods_info
    /\ UNCHANGED <<db_file, replacements_file, prune_pc, prune_runs,
                   steam_id_lookup, original_mod_entries, updater_vars, rules_vars,
                   parse_vars>>

\* line 124, open(replacements_path, 'w'): the file is truncated, or cannot
\* be opened and the script returns
PruneSaveOpen ==
    /\ prune_pc = "analyze"
    /\ entry_index = Len(original_mod_entries)
    /\ \/ /\ replacements_file' = [state |-> "truncated", mods |-> <<>>]
          /\ prune_pc' = "dump"
          /\ UNCHANGED printed
       \/ /\ printed' = Append(printed, [id |-> "", what |-> "save_error"])
          /\ prune_pc' = "returned"
          /\ UNCHANGED replacements_file
    /\ UNCHANGED <<db_file, prune_runs, steam_id_lookup, original_mod_entries,
                   entry_index, kept_mod_entries, obsolete_mods_info,
                   updater_vars, rules_vars,
                   parse_vars>>

\* line 125, json.dump, and the report of lines 131-142
PruneSaveDump ==
    /\ prune_pc = "dump"
    /\ replacements_file' = [state |-> "ok", mods |-> kept_mod_entries]
    /\ printed' = Append(printed, [id |-> "", what |-> "complete"])
    /\ prune_pc' = "returned"
    /\ UNCHANGED <<db_file, prune_runs, steam_id_lookup, original_mod_entries,
                   entry_index, kept_mod_entries, obsolete_mods_info,
                   updater_vars, rules_vars,
                   parse_vars>>

\* the script is run on a database and a mapping, the updater is not running
InitPrune ==
    /\ db_file \in
         {[state |-> "missing", mods |-> EmptyDB],
          [state |-> "corrupt", mods |-> EmptyDB]} \cup
         {[state |-> "ok", mods |-> d] : d \in PruneDatabases}
    /\ remote = [sid \in SetOf(FolderNames) |-> RunResponses(sid)]
    /\ WorkerStart
    /\ \E file \in
           {[state |-> "missing", mods |-> <<>>],
            [state |-> "corrupt", mods |-> <<>>]} \cup
           {[state |-> "ok", mods |-> m] : m \in PruneMappings} :
         /\ replacements_file = file
         /\ prune_pc = "start"
         /\ prune_runs = 0
         /\ steam_id_lookup = <<>>
         /\ original_mod_entries = <<>>
         /\ entry_index = 0
         /\ kept_mod_entries = <<>>
         /\ obsolete_mods_info = <<>>
         /\ printed = <<>>
    /\ RulesManagerStart
    /\ ParserStart
    /\ update_runs = 1
    /\ ReplacerStart

NextPrune ==
    \/ PruneLoad
    \/ PruneEntry
    \/ PruneSaveOpen
    \/ PruneSaveDump

SpecPrune == InitPrune /\ [][NextPrune]_vars


(***************************************************************************)
(* rule_manager.py: the loadBefore, loadAfter and incompatibilities lists  *)
(* of the rule of one mod, as rows of the three Treeviews.                 *)
(***************************************************************************)
UpperChars == <<"A", "B", "C", "D", "X", "Y">>

LowerChars == <<"a", "b", "c", "d", "x", "y">>

\* str.lower() on the letters the model uses
lower(str) ==
    [i \in 1..Len(str) |->
        IF \E j \in 1..Len(UpperChars) : UpperChars[j] = str[i]
        THEN LowerChars[CHOOSE j \in 1..Len(UpperChars) : UpperChars[j] = str[i]]
        ELSE str[i]]

\* package ids of referenced mods
IdXY == <<"x", ".", "y">>

IdAB == <<"a", ".", "b">>

IdCD == <<"c", ".", "d">>

\* what the user may leave in the "Package ID" entry of the editor dialog
DialogInputs ==
    {IdXY, IdAB, IdCD, <<"X", ".", "Y">>, <<" ", "a", ".", "b", " ">>,
     <<" ">>}

\* the dialog was closed with Cancel
Cancelled == <<"<cancel>">>

\* Dialog.apply and show: the result of the dialog, None without a package id
NoDialogResult == [package_id |-> <<>>, present |-> FALSE]

dialog_show(typed) ==
    IF typed = Cancelled \/ Strip(typed) = <<>> THEN NoDialogResult
    ELSE [package_id |-> Strip(typed), present |-> TRUE]

all_list_types == <<"loadBefore", "loadAfter", "incompatibilities">>

\* a row of a dependency list and of the incompatibility list
DependencyRow(package_id, comment) ==
    [package_id |-> package_id, hard |-> "", comment |-> comment]

IncompatibilityRow(package_id, hard, comment) ==
    [package_id |-> package_id, hard |-> hard, comment |-> comment]

\* the rows of the three lists after a rule was loaded (_populate_treeview):
\* the package ids are shown as the rule file spells them
LoadedRules ==
    {[loadBefore |-> <<>>, loadAfter |-> <<>>, incompatibilities |-> <<>>],
     [loadBefore |-> <<>>, loadAfter |-> <<DependencyRow(IdXY, "")>>,
      incompatibilities |-> <<>>],
     [loadBefore |-> <<DependencyRow(<<"X", ".", "Y">>, "")>>,
      loadAfter |-> <<>>,
      incompatibilities |-> <<IncompatibilityRow(IdCD, "No", "")>>],
     [loadBefore |-> <<DependencyRow(IdAB, "")>>,
      loadAfter |-> <<DependencyRow(IdCD, "")>>,
      incompatibilities |-> <<IncompatibilityRow(IdXY, "Yes", "")>>],
     \* a rule file that lists x.y in two lists
     [loadBefore |-> <<>>,
      loadAfter |-> <<DependencyRow(IdXY, ""), DependencyRow(IdAB, "")>>,
      incompatibilities |-> <<IncompatibilityRow(IdXY, "No", "")>>]}

\* the lowercased package id of the row is package_id
RowHas(row, package_id) == lower(row.package_id) = package_id

\* some row of the list has the package id
ListHas(rows, package_id) ==
    \E i \in 1..Len(rows) : RowHas(rows[i], package_id)

Accepted == [ok |-> TRUE, message |-> NoMessage]

Rejected(title, list_type) ==
    [ok |-> FALSE, message |-> [title |-> title, list_type |-> list_type]]

\* faulty variant of OtherListTypes: only the dependency lists are looked at
OtherListTypes_DependenciesOnly(current_list_type) ==
    SelectSeq(all_list_types,
              LAMBDA t : t # current_list_type /\ t # "incompatibilities")

\* lines 568-570: the lists other than the current one, in their order
OtherListTypes(current_list_type) ==
    SelectSeq(all_list_types, LAMBDA t : t # current_list_type)

\* faulty variant of _validate_dependency_conflict: the other lists are
\* looked at before the current one
validate_OthersFirst(package_id, current_list_type, is_edit, old_package_id) ==
    LET others   == OtherListTypes(current_list_type)
        conflict == {i \in 1..Len(others) :
                        ListHas(trees[others[i]], package_id)}
    IN  IF conflict # {}
        THEN Rejected("Rule Conflict",
                      others[CHOOSE i \in conflict :
                                 \A j \in conflict : i <= j])
        ELSE IF /\ ListHas(trees[current_list_type], package_id)
                /\ ~(is_edit /\ package_id = old_package_id)
        THEN Rejected("Duplicate Entry", current_list_type)
        ELSE Accepted

\* _validate_dependency_conflict
validate_dependency_conflict(package_id, current_list_type, is_edit, old_package_id) ==
    LET others   == OtherListTypes(current_list_type)
        conflict == {i \in 1..Len(others) :
                        ListHas(trees[others[i]], package_id)}
    IN  IF /\ ListHas(trees[current_list_type], package_id)
           /\ ~(is_edit /\ package_id = old_package_id)
        THEN Rejected("Duplicate Entry", current_list_type)
        ELSE IF conflict # {}
        THEN Rejected("Rule Conflict",
                      others[CHOOSE i \in conflict :
                                 \A j \in conflict : i <= j])
        ELSE Accepted

\* the row an accepted dialog gives for the list
NewRow(list_type, package_id, comment) ==
    IF list_type = "incompatibilities"
    THEN IncompatibilityRow(package_id, "No", comment)
    ELSE DependencyRow(package_id, comment)

\* _add_dependency_rule (loadBefore, loadAfter) and
\* _add_incompatibility_rule (incompatibilities)
AddRule(list_type) ==
    /\ rule_ops < MaxRuleOps
    /\ rule_ops' = rule_ops + 1
    /\ \E typed \in DialogInputs \cup {Cancelled} :
         LET result == dialog_show(typed)
             package_id == lower(result.package_id)
             verdict == validate_dependency_conflict(package_id, list_type,
                                                     FALSE, <<>>)
         IN  /\ last_op' = Operation("add", list_type, result.present,
                                     package_id, <<>>)
             /\ IF ~result.present
                THEN /\ messagebox' = NoMessage
                     /\ UNCHANGED trees
                ELSE /\ messagebox' = verdict.message
                     /\ trees' =
                          IF verdict.ok
                          THEN [trees EXCEPT
                                  ![list_type] =
                                      Append(@, NewRow(list_type, package_id,
                                                       ""))]
                          ELSE trees
    /\ UNCHANGED <<db_file, updater_vars, pruner_vars, parse_vars>>

\* _edit_dependency_rule and _edit_incompatibility_rule: the selected row
\* gets the values of the dialog
EditRule(list_type) ==
    /\ rule_ops < MaxRuleOps
    /\ rule_ops' = rule_ops + 1
    /\ IF trees[list_type] = <<>>
       THEN /\ messagebox' = [title |-> "Edit Error", list_type |-> ""]
            /\ last_op' = Operation("edit", list_type, FALSE, <<>>, <<>>)
            /\ UNCHANGED trees
       ELSE \E selected_item \in 1..Len(trees[list_type]) :
            \E typed \in DialogInputs \cup {Cancelled} :
              LET current_values == trees[list_type][selected_item]
                  result == dialog_show(typed)
                  new_package_id == lower(result.package_id)
                  validated == new_package_id # lower(current_values.package_id)
                  verdict ==
                      IF validated
                      THEN validate_dependency_conflict(
                               new_package_id, list_type, TRUE,
                               lower(current_values.package_id))
                      ELSE Accepted
              IN  /\ last_op' = Operation("edit", list_type, result.present,
                                          new_package_id,
                                          lower(current_values.package_id))
                  /\ IF ~result.present
                     THEN /\ messagebox' = NoMessage
                          /\ UNCHANGED trees
                     ELSE /\ messagebox' = verdict.message
                          /\ trees' =
                               IF verdict.ok
                               THEN [trees EXCEPT
                                       ![list_type][selected_item] =
                                           [@ EXCEPT
                                              !.package_id = new_package_id,
                                              !.comment = "edited"]]
                               ELSE trees
    /\ UNCHANGED <<db_file, updater_vars, pruner_vars, parse_vars>>

\* _remove_dependency_rule and _remove_incompatibility_rule
RemoveRule(list_type) ==
    /\ rule_ops < MaxRuleOps
    /\ rule_ops' = rule_ops + 1
    /\ trees[list_type] # <<>>
    /\ \E selected_item \in 1..Len(trees[list_type]) :
         trees' = [trees EXCEPT
                     ![list_type] =
                         SubSeq(@, 1, selected_item - 1) \o
                         SubSeq(@, selected_item + 1, Len(@))]
    /\ messagebox' = NoMessage
    /\ last_op' = Operation("remove", list_type, FALSE, <<>>, <<>>)
    /\ UNCHANGED <<db_file, updater_vars, pruner_vars, parse_vars>>

\* a rule was loaded into the three lists; the other tools are not running
InitRules ==
    /\ db_file \in {[state |-> "missing", mods |-> EmptyDB],
                     [state |-> "ok", mods |-> EmptyDB]}
    /\ remote = [sid \in SetOf(FolderNames) |-> RunResponses(sid)]
    /\ WorkerStart
    /\ PrunerStart
    /\ ParserStart
    /\ update_runs = 1
    /\ ReplacerStart
    /\ trees \in LoadedRules
    /\ messagebox = NoMessage
    /\ last_op = NoOperation
    /\ rule_ops = 0

NextRules ==
    \E i \in 1..Len(all_list_types) :
        \/ AddRule(all_list_types[i])
        \/ EditRule(all_list_types[i])
        \/ RemoveRule(all_list_types[i])

SpecRules == InitRules /\ [][NextRules]_vars

(***************************************************************************)
(* get_version_key of db_updater.py and of obsolete_replacements.py, each  *)
(* called once with the same value: None or a string of at most            *)
(* MaxVersionLen characters.                                               *)
(***************************************************************************)
\* the characters of the strings: digits, the dot, a letter, a sign and a
\* character that is a digit for isdigit() and not for int()
VersionChars == {"1", "5", ".", "b", "-", SuperscriptTwo}

VersionInputs ==
    {None} \cup UNION {[1..n -> VersionChars] : n \in 0..MaxVersionLen}

\* the exception of tuple(map(int, version_str.split('.'))), "" for none:
\* None has no split(), int() refuses a part
split_int_raises(version_str) ==
    IF version_str = None THEN "AttributeError"
    ELSE IF \E i \in 1..Len(SplitDots(version_str)) :
                ~IntParses(SplitDots(version_str)[i])
    THEN "ValueError"
    ELSE ""

\* except (ValueError, AttributeError)
get_version_key_except == {"ValueError", "AttributeError"}

\* a call of db_updater.get_version_key
call_get_version_key(value) ==
    LET exception == split_int_raises(value)
    IN  IF exception = "" \/ exception \in get_version_key_except
        THEN Returned(get_version_key(value))
        ELSE Raised(exception)

\* the exception inside the try block of obsolete_replacements.get_version_key
cleaned_int_raises(version_str) ==
    IF version_str = None \/ version_str = <<>> THEN ""
    ELSE LET cleaned_str ==
                 SelectSeq(version_str, LAMBDA char : isdigit(char) \/ char = ".")
         IN  IF cleaned_str = <<>> THEN "" ELSE split_int_raises(cleaned_str)

\* a call of obsolete_replacements.get_version_key
call_obsolete_replacements_get_version_key(value) ==
    LET exception == cleaned_int_raises(value)
    IN  IF exception = "" \/ exception \in get_version_key_except
        THEN Returned(obsolete_replacements_get_version_key(value))
        ELSE Raised(exception)

CallUpdaterKey ==
    /\ version_key.db_updater = NotCalled
    /\ version_key' =
         [version_key EXCEPT !.db_updater = call_get_version_key(version_arg)]
    /\ UNCHANGED <<db_file, updater_vars, pruner_vars, rules_vars, version_arg,
                   versions_arg, max_version>>

CallPrunerKey ==
    /\ version_key.obsolete_replacements = NotCalled
    /\ version_key' =
         [version_key EXCEPT
            !.obsolete_replacements =
                call_obsolete_replacements_get_version_key(version_arg)]
    /\ UNCHANGED <<db_file, updater_vars, pruner_vars, rules_vars, version_arg,
                   versions_arg, max_version>>

\* get_version_key of replace_update.py
replace_update_get_version_key(version_str) ==
    IF version_str = None THEN <<0>>
    ELSE LET parts == SplitDots(version_str)
         IN  IF \A i \in 1..Len(parts) : IntParses(parts[i])
             THEN [i \in 1..Len(parts) |-> IntValue(parts[i])]
             ELSE <<0>>

\* a call of replace_update.get_version_key
call_replace_update_get_version_key(value) ==
    LET exception == split_int_raises(value)
    IN  IF exception = "" \/ exception \in get_version_key_except
        THEN Returned(replace_update_get_version_key(value))
        ELSE Raised(exception)

CallReplaceUpdateKey ==
    /\ version_key.replace_update = NotCalled
    /\ version_key' =
         [version_key EXCEPT
            !.replace_update = call_replace_update_get_version_key(version_arg)]
    /\ UNCHANGED <<db_file, updater_vars, pruner_vars, rules_vars, version_arg,
                   versions_arg, max_version>>

InitParse ==
    /\ db_file = [state |-> "missing", mods |-> EmptyDB]
    /\ remote = [sid \in SetOf(FolderNames) |-> RunResponses(sid)]
    /\ WorkerStart
    /\ PrunerStart
    /\ RulesManagerStart
    /\ update_runs = 1
    /\ ReplacerStart
    /\ version_arg \in VersionInputs
    /\ version_key = [db_updater |-> NotCalled,
                      obsolete_replacements |-> NotCalled,
                      replace_update |-> NotCalled]
    /\ versions_arg = <<>>
    /\ max_version = [db_updater |-> NotCalled,
                      obsolete_replacements |-> NotCalled,
                      replace_update |-> NotCalled]

NextParse == CallUpdaterKey \/ CallPrunerKey \/ CallReplaceUpdateKey

SpecParse == InitParse /\ [][NextParse]_vars

(***************************************************************************)
(* The maximum of a "versions" list as each script takes it, each called   *)
(* once with the same list of at most MaxVersions strings.                 *)
(***************************************************************************)
VZero == <<"0">>

VMinusOne == <<"-", "1">>

\* the strings of the lists: versions, a version with a suffix, text, the
\* version 0 and a signed number
MaxInputStrings == {V15, V16, V15b, NotAVersion, VZero, VMinusOne}

MaxInputLists == UNION {[1..n -> MaxInputStrings] : n \in 0..MaxVersions}

\* the outcome of taking a maximum: the element selected, where the script
\* selects one, and the key
Selected(element, key) == [raised |-> "", element |-> element, key |-> key]

\* the elements with the greatest get_version_key
MaxElements(versions) ==
    {v \in versions :
        \A w \in versions : ~KeyLess(get_version_key(v), get_version_key(w))}

\* db_updater.py 184-185: max(a_set, key=get_version_key) gives the first
\* element of greatest key in the iteration order of the set, which is any
\* order
CallUpdaterMax ==
    /\ max_version.db_updater = NotCalled
    /\ versions_arg # <<>>
    /\ \E v \in MaxElements(SetOf(versions_arg)) :
         max_version' =
             [max_version EXCEPT
                !.db_updater = Selected(v, MaxVersionKey(SetOf(versions_arg)))]
    /\ UNCHANGED <<db_file, updater_vars, pruner_vars, rules_vars, version_arg,
                   version_key, versions_arg>>

\* obsolete_replacements.py 22-29
CallPrunerMax ==
    /\ max_version.obsolete_replacements = NotCalled
    /\ max_version' =
         [max_version EXCEPT
            !.obsolete_replacements =
                Selected(None, get_max_version_key_from_list(versions_arg))]
    /\ UNCHANGED <<db_file, updater_vars, pruner_vars, rules_vars, version_arg,
                   version_key, versions_arg>>

\* replace_update.py 248-249: max(a_list, key=get_version_key) if a_list
\* else "0"; max gives the first element of greatest key
replace_update_max(versions) ==
    IF versions = <<>> THEN VZero
    ELSE versions[CHOOSE i \in 1..Len(versions) :
             /\ \A j \in 1..Len(versions) :
                    ~KeyLess(replace_update_get_version_key(versions[i]),
                             replace_update_get_version_key(versions[j]))
             /\ \A j \in 1..(i - 1) :
                    KeyLess(replace_update_get_version_key(versions[j]),
                            replace_update_get_version_key(versions[i]))]

\* replace_update.py 248-250: the greatest version of a mod and its key
CallReplaceUpdateMax ==
    /\ max_version.replace_update = NotCalled
    /\ max_version' =
         [max_version EXCEPT
            !.replace_update =
                Selected(replace_update_max(versions_arg),
                         replace_update_get_version_key(
                             replace_update_max(versions_arg)))]
    /\ UNCHANGED <<db_file, updater_vars, pruner_vars, rules_vars, version_arg,
                   version_key, versions_arg>>

InitMax ==
    /\ db_file = [state |-> "missing", mods |-> EmptyDB]
    /\ remote = [sid \in SetOf(FolderNames) |-> RunResponses(sid)]
    /\ WorkerStart
    /\ PrunerStart
    /\ RulesManagerStart
    /\ update_runs = 1
    /\ ReplacerStart
    /\ version_arg = None
    /\ version_key = [db_updater |-> NotCalled,
                      obsolete_replacements |-> NotCalled,
                      replace_update |-> NotCalled]
    /\ versions_arg \in MaxInputLists
    /\ max_version = [db_updater |-> NotCalled,
                      obsolete_replacements |-> NotCalled,
                      replace_update |-> NotCalled]

NextMax == CallUpdaterMax \/ CallPrunerMax \/ CallReplaceUpdateMax

SpecMax == InitMax /\ [][NextMax]_vars


(***************************************************************************)
(* Properties of the fetch phase and the applier.                          *)
(***************************************************************************)
\* lookups admitted past the semaphore and not yet completed
InFlight == {i \in DOMAIN task_state : task_state[i] = "inflight"}

\* C1: during the fetch phase the number of lookups in flight never exceeds
\* the concurrency limit of 10, whatever the worklist size and the mix of
\* found and failing lookups.
C1_ConcurrencyBound == Cardinality(InFlight) <= MAX_CONCURRENT_REQUESTS

\* the limit is reached again after a failed lookup gave its slot back to a
\* lookup that was waiting
C1_Witness ==
    /\ Cardinality(InFlight) = MAX_CONCURRENT_REQUESTS
    /\ Len(mods_to_fetch_from_api) > MAX_CONCURRENT_REQUESTS
    /\ semaphore = 0
    /\ \E i \in DOMAIN task_state :
         task_state[i] = "completed" /\ ~task_result[i][2].present

\* the answer makes the lookup fail: exception or timeout, status other than
\* 200, no details, or a result code other than "found"
Failed(resp) ==
    \/ resp.raises # ""
    \/ resp.status # 200
    \/ resp.details = <<>>
    \/ resp.details[1].result # 1

Completes(i) == task_state[i] = "inflight" /\ task_state'[i] = "completed"

Applies(i) == task_state[i] = "completed" /\ task_state'[i] = "applied"

OtherTasksUntouched(i) ==
    \A j \in DOMAIN task_state \ {i} :
        /\ task_state'[j] = task_state[j]
        /\ task_result'[j] = task_result[j]

C2_Step ==
    /\ \A i \in DOMAIN task_state :
         /\ Completes(i) =>
              /\ task_result'[i][1] = mods_to_fetch_from_api[i].steam_id
              /\ task_result'[i][2].present = ~Failed(response'[i])
              /\ Failed(response'[i]) => task_result'[i][2] = NoResult
              /\ OtherTasksUntouched(i)
              /\ db_data' = db_data
         /\ Applies(i) =>
              /\ DOMAIN db_data' = DOMAIN db_data
              /\ \A k \in DOMAIN db_data \ {mods_to_fetch_from_api[i].ref} :
                     db_data'[k] = db_data[k]
              /\ db_data'[mods_to_fetch_from_api[i].ref].published =
                     IF task_result[i][2].present THEN "True" ELSE "False"
              /\ OtherTasksUntouched(i)
    /\ (pc = "fetch" /\ pc' # "fetch") =>
          \/ \A i \in DOMAIN task_state : task_state[i] = "applied"
          \/ /\ pc' = "raised"
             /\ \E i \in DOMAIN task_state :
                  /\ task_state[i] = "completed"
                  /\ task_state'[i] = "raised"
                  /\ task_result[i][2].present

\* C2: a lookup that fails (status, empty or not-found result, exception,
\* timeout) yields an absent result under its own steam_id and nothing else:
\* the state and result of every other lookup and every other record are
\* untouched by its completion and by its application, and the fetch loop
\* is left only when every lookup's result was applied, or by the exception
\* that the result of a found lookup raised, never by a failed lookup.
C2_Isolation == [][C2_Step]_vars

\* one lookup failed and was applied, another of the same batch was found
\* and applied
C2_Witness ==
    \E i, j \in DOMAIN task_state :
        /\ task_state[i] = "applied"
        /\ task_state[j] = "applied"
        /\ db_data[mods_to_fetch_from_api[i].ref].published = "False"
        /\ db_data[mods_to_fetch_from_api[j].ref].published = "True"

\* C3: every lookup gives its slot back however it ends, so with the event
\* loop running and every request ending, every worklist item is admitted
\* and completes, for a worklist longer than the limit.
C3_EveryLookupCompletes ==
    \A i \in FetchItems : <>(task_state[i] = "completed")

\* every lookup of a worklist longer than the limit completed, failing ones
\* among them, and every slot is free again
C3_Witness ==
    /\ FetchWorklistLen > MAX_CONCURRENT_REQUESTS
    /\ \A i \in FetchItems : task_state[i] = "completed"
    /\ \E i \in FetchItems : ~task_result[i][2].present
    /\ semaphore = MAX_CONCURRENT_REQUESTS

\* the worklist items whose result was applied to the record k
AppliedTo(k) ==
    {i \in DOMAIN task_state :
        task_state[i] = "applied" /\ mods_to_fetch_from_api[i].ref = k}

\* C4: for every completion order the applier writes once per worklist item,
\* to the record inserted for that item's steam_id and to no other record:
\* the records of the worklist are distinct, a record was written exactly as
\* many times as items of it were applied (at most once), and when the loop
\* is over every worklist record was written exactly once.
C4_AppliedOncePerItem ==
    /\ \A i, j \in DOMAIN task_state :
         i # j => mods_to_fetch_from_api[i].ref # mods_to_fetch_from_api[j].ref
    /\ \A i \in DOMAIN task_state :
         /\ mods_to_fetch_from_api[i].ref \in DOMAIN db_data
         /\ mods_to_fetch_from_api[i].ref[2] = mods_to_fetch_from_api[i].steam_id
         /\ (db_data[mods_to_fetch_from_api[i].ref].published # "unset")
               = (task_state[i] = "applied")
    /\ \A k \in DOMAIN apply_hits :
         /\ apply_hits[k] = Cardinality(AppliedTo(k))
         /\ apply_hits[k] <= 1
    /\ pc \in {"save", "dump", "summary", "done"} =>
         \A i \in DOMAIN task_state :
             apply_hits[mods_to_fetch_from_api[i].ref] = 1

\* the result of a later worklist item is applied while an earlier item is
\* still in flight
C4_Witness ==
    \E i, j \in DOMAIN task_state :
        /\ i < j
        /\ task_state[i] = "inflight"
        /\ task_state[j] = "applied"
        /\ apply_hits[mods_to_fetch_from_api[j].ref] = 1

\* s[a..b] is a non-empty run of digits
IsDigitRun(s, a, b) == a <= b /\ \A k \in a..b : s[k] \in Digits

\* digits.digits with an optional third .digits component
IsStrictVersion(tag) ==
    \E d \in 1..Len(tag) :
        /\ tag[d] = "."
        /\ IsDigitRun(tag, 1, d - 1)
        /\ \/ IsDigitRun(tag, d + 1, Len(tag))
           \/ \E e \in (d + 1)..Len(tag) :
                 /\ tag[e] = "."
                 /\ IsDigitRun(tag, d + 1, e - 1)
                 /\ IsDigitRun(tag, e + 1, Len(tag))

Count(x, list) == Cardinality({k \in 1..Len(list) : list[k] = x})

C5_Step ==
    \A i \in DOMAIN task_state :
        (Applies(i) /\ task_result[i][2].present) =>
            LET tags     == task_result[i][2].tags
                record   == db_data'[mods_to_fetch_from_api[i].ref]
            IN  /\ IsSortedByKey(record.versions)
                /\ \A t \in SetOf(tags) \cup SetOf(record.versions) :
                       Count(t, record.versions) =
                           IF IsStrictVersion(t) THEN Count(t, tags) ELSE 0
                /\ record.published = "True"

\* C5: when the lookup of a worklist record is found, the record's version
\* list becomes exactly the result's tags that match the strict version
\* pattern, in ascending VersionKey order, whatever was observed locally,
\* and published becomes true.
C5_FoundReplacesVersions == [][C5_Step]_vars

\* the tags 1.6, "1.5" with a line feed, 1.5 were applied: VERSION_REGEX
\* matches the tag that ends with a line feed ($ matches before it), and the
\* record holds it
C5_Witness ==
    \E i \in DOMAIN task_state :
        LET ref == mods_to_fetch_from_api[i].ref
        IN  /\ task_state[i] = "applied"
            /\ FoundResponse(<<V16, V15LF, <<>>, V15>>) \in remote[ref[2]]
            /\ db_data[ref].versions = <<V15LF, V15, V16>>
            /\ ~IsStrictVersion(V15LF)
            /\ db_data[ref].published = "True"
            /\ successful_api_updates >= 1

C6_Step ==
    \A i \in DOMAIN task_state :
        (Applies(i) /\ ~task_result[i][2].present) =>
            LET ref == mods_to_fetch_from_api[i].ref
            IN  /\ db_data'[ref].versions = db_data[ref].versions
                /\ db_data'[ref].name = db_data[ref].name
                /\ db_data'[ref].authors = db_data[ref].authors
                /\ db_data'[ref].published = "False"

\* C6: when the lookup of a worklist record is absent, the record's version
\* list stays exactly as observed locally and published is set to false.
C6_AbsentKeepsVersions == [][C6_Step]_vars

\* a record observed with 1.6, 1.5 (in that order) after its failed lookup
C6_Witness ==
    \E i \in DOMAIN task_state :
        LET ref == mods_to_fetch_from_api[i].ref
        IN  /\ task_state[i] = "applied"
            /\ db_data[ref].versions = <<V16, V15>>
            /\ db_data[ref].published = "False"
            /\ failed_api_updates >= 1

(***************************************************************************)
(* Properties of the merge.                                                *)
(***************************************************************************)
\* the step scans a folder whose manifest was parsed
ScansInfo == scan_counter' = scan_counter + 1 /\ local_mod_info' # NoInfo

ObservedKey == <<local_mod_info'.package_id, local_mod_info'.steam_id>>

ObservedVersions == local_mod_info'.data.versions

C7_Step ==
    (ScansInfo /\ ObservedKey \notin DOMAIN db_data) =>
        /\ DOMAIN db_data' = DOMAIN db_data \cup {ObservedKey}
        /\ db_data'[ObservedKey] = local_mod_info'.data
        /\ \A k \in DOMAIN db_data : db_data'[k] = db_data[k]
        /\ mods_to_fetch_from_api' =
             Append(mods_to_fetch_from_api,
                    [steam_id |-> local_mod_info'.steam_id,
                     ref |-> ObservedKey])
        /\ mods_added_count' = mods_added_count + 1
        /\ versions_updated_count' = versions_updated_count

\* C7: when the database has no record for the observed (package id, steam
\* id) pair, also when the package id is there under other steam ids, the
\* observation is stored as it is as a new record, and the record is
\* appended to the worklist, also with no observed version.
C7_InsertVerbatim == [][C7_Step]_vars

\* a mod without versions was inserted under a package id that the database
\* holds under other steam ids, and is the last entry of the worklist
C7_Witness ==
    LET key == <<local_mod_info.package_id, local_mod_info.steam_id>>
    IN  /\ pc = "scan"
        /\ local_mod_info # NoInfo
        /\ local_mod_info.data.versions = <<>>
        /\ key \notin DOMAIN db_file.mods
        /\ \E k \in DOMAIN db_file.mods : k[1] = key[1] /\ k[2] # key[2]
        /\ key \in DOMAIN db_data
        /\ db_data[key] = local_mod_info.data
        /\ mods_to_fetch_from_api # <<>>
        /\ mods_to_fetch_from_api[Len(mods_to_fetch_from_api)].ref = key

C8_Step ==
    (ScansInfo /\ ObservedKey \in DOMAIN db_data /\ ObservedVersions = <<>>) =>
        /\ db_data' = db_data
        /\ mods_to_fetch_from_api' = mods_to_fetch_from_api
        /\ versions_updated_count' = versions_updated_count
        /\ mods_added_count' = mods_added_count

\* C8: for an existing record an observation without versions changes
\* nothing: the record keeps its version list and every other field, it is
\* not queued and no update is counted.
C8_EmptyObservationNoOp == [][C8_Step]_vars

\* an existing record with versions was met by a manifest without versions
C8_Witness ==
    LET key == <<local_mod_info.package_id, local_mod_info.steam_id>>
    IN  /\ pc = "scan"
        /\ scan_counter >= 1
        /\ local_mod_info # NoInfo
        /\ local_mod_info.data.versions = <<>>
        /\ key \in DOMAIN db_file.mods
        /\ db_file.mods[key].versions # <<>>
        /\ db_data[key] = db_file.mods[key]
        /\ versions_updated_count = 0

C9_Step ==
    (/\ ScansInfo
     /\ ObservedKey \in DOMAIN db_data
     /\ ObservedVersions # <<>>
     /\ db_data[ObservedKey].versions = <<>>) =>
        LET stored == db_data'[ObservedKey].versions
        IN  /\ SetOf(stored) = SetOf(ObservedVersions)
            /\ Len(stored) = Cardinality(SetOf(ObservedVersions))
            /\ IsSortedByKey(stored)
            /\ db_data' = [db_data EXCEPT ![ObservedKey].versions = stored]
            /\ versions_updated_count' = versions_updated_count + 1
            /\ mods_to_fetch_from_api' = mods_to_fetch_from_api

\* C9: for an existing record without stored versions and an observation
\* with versions, the stored list becomes the observed versions in ascending
\* VersionKey order, one update is counted and the record is not queued.
C9_PopulateEmpty == [][C9_Step]_vars

\* a record stored without versions was populated from 1.6, 1.5
C9_Witness ==
    LET key == <<local_mod_info.package_id, local_mod_info.steam_id>>
    IN  /\ pc = "scan"
        /\ local_mod_info.data.versions = <<V16, V15>>
        /\ key \in DOMAIN db_file.mods
        /\ db_file.mods[key].versions = <<>>
        /\ db_data[key].versions = <<V15, V16>>
        /\ versions_updated_count = 1
        /\ mods_to_fetch_from_api = <<>>

\* the greatest VersionKey of the list a is strictly above every key of b
MaxKeyGreater(a, b) ==
    \E v \in SetOf(a) :
        \A w \in SetOf(b) : KeyLess(get_version_key(w), get_version_key(v))

C10_Step ==
    (/\ ScansInfo
     /\ ObservedKey \in DOMAIN db_data
     /\ ObservedVersions # <<>>
     /\ db_data[ObservedKey].versions # <<>>
     /\ MaxKeyGreater(ObservedVersions, db_data[ObservedKey].versions)) =>
        LET stored == db_data'[ObservedKey].versions
        IN  /\ SetOf(stored) = SetOf(ObservedVersions)
            /\ Len(stored) = Cardinality(SetOf(ObservedVersions))
            /\ IsSortedByKey(stored)

\* C10: for an existing record with stored and observed versions, when the
\* greatest observed VersionKey is strictly above the greatest stored one,
\* the stored list is replaced by the observed versions in ascending
\* VersionKey order.
C10_NewerReplaces == [][C10_Step]_vars

\* stored 1.4, observed 1.5: the record now holds 1.5
C10_Witness ==
    LET key == <<local_mod_info.package_id, local_mod_info.steam_id>>
    IN  /\ pc = "scan"
        /\ local_mod_info.data.versions = <<V15>>
        /\ key \in DOMAIN db_file.mods
        /\ db_file.mods[key].versions = <<V14>>
        /\ db_data[key].versions = <<V15>>
        /\ versions_updated_count = 1

\* the observed and the stored record both carry versions
BothNonEmpty ==
    /\ ScansInfo
    /\ ObservedKey \in DOMAIN db_data
    /\ ObservedVersions # <<>>
    /\ db_data[ObservedKey].versions # <<>>

\* the greatest VersionKey of the lists a and b is the same
MaxKeyEqual(a, b) == ~MaxKeyGreater(a, b) /\ ~MaxKeyGreater(b, a)

C11_Step ==
    (/\ BothNonEmpty
     /\ MaxKeyEqual(ObservedVersions, db_data[ObservedKey].versions)
     /\ Cardinality(SetOf(ObservedVersions)) <
            Cardinality(SetOf(db_data[ObservedKey].versions))) =>
        LET stored == db_data'[ObservedKey].versions
        IN  /\ SetOf(stored) = SetOf(ObservedVersions)
            /\ Len(stored) = Cardinality(SetOf(ObservedVersions))
            /\ IsSortedByKey(stored)
            /\ versions_updated_count' = versions_updated_count + 1

\* C11: for an existing record with stored and observed versions, when the
\* greatest observed and stored VersionKeys are equal and the observed set
\* has fewer distinct entries than the stored set, the stored list is
\* replaced by the observed versions.
C11_FewerReplaces == [][C11_Step]_vars

\* stored 1.4, 1.5, observed 1.5: the record now holds 1.5
C11_Witness ==
    /\ scan_counter = 1
    /\ local_mod_info.data.versions = <<V15>>
    /\ MergeKey \in DOMAIN db_file.mods
    /\ db_file.mods[MergeKey].versions = <<V14, V15>>
    /\ db_data[MergeKey].versions = <<V15>>
    /\ versions_updated_count = 1

C12_Step ==
    (/\ BothNonEmpty
     /\ \/ MaxKeyGreater(db_data[ObservedKey].versions, ObservedVersions)
        \/ /\ MaxKeyEqual(ObservedVersions, db_data[ObservedKey].versions)
           /\ Cardinality(SetOf(ObservedVersions)) >=
                  Cardinality(SetOf(db_data[ObservedKey].versions))) =>
        /\ db_data' = db_data
        /\ versions_updated_count' = versions_updated_count

\* C12: for an existing record with stored and observed versions, when the
\* greatest observed VersionKey is below the greatest stored one, or they
\* are equal and the observed set has not fewer entries, the stored list is
\* left as it is, in its order, and no update is counted.
C12_OtherwiseUnchanged == [][C12_Step]_vars

\* stored 1.6, 1.5 (not in ascending order) was met by the same set of
\* versions and by a lower maximum, and is still 1.6, 1.5
C12_Witness ==
    /\ scan_counter = 1
    /\ local_mod_info.data.versions \in {<<V16, V15>>, <<V15>>}
    /\ MergeKey \in DOMAIN db_file.mods
    /\ db_file.mods[MergeKey].versions = <<V16, V15>>
    /\ db_data[MergeKey].versions = <<V16, V15>>
    /\ versions_updated_count = 0

\* the stored version set of the observed mod, {} when it has no record
StoredVersionSet(db) ==
    IF MergeKey \in DOMAIN db THEN SetOf(db[MergeKey].versions) ELSE {}

C13_Step ==
    (ScansInfo /\ scan_counter >= 1 /\ local_mod_info' = local_mod_info) =>
        /\ DOMAIN db_data' = DOMAIN db_data
        /\ StoredVersionSet(db_data') = StoredVersionSet(db_data)
        /\ mods_added_count' = mods_added_count
        /\ versions_updated_count' = versions_updated_count

\* C13: whatever the stored state (no record, a record without or with
\* versions) and the observation, applying the merge again to the same
\* observation leaves the stored version set as the first application left
\* it and counts no insert and no update.
C13_MergeIdempotent == [][C13_Step]_vars

\* the first application inserted, populated or replaced from the
\* observation 1.6, 1.5, and the merge was applied a second time
C13_Witness ==
    /\ scan_counter = 2
    /\ local_mod_info.data.versions = <<V16, V15>>
    /\ \/ mods_added_count = 1 /\ db_data[MergeKey].versions = <<V16, V15>>
       \/ /\ versions_updated_count = 1
          /\ db_data[MergeKey].versions = <<V15, V16>>
    /\ last_branch = "keep"

(***************************************************************************)
(* Properties of the maintenance of replacements.json.                     *)
(***************************************************************************)
\* the step is an iteration of the loop over the mapping
PrunesEntry == prune_pc = "analyze" /\ entry_index' = entry_index + 1

\* the entry of that iteration
CurrentEntry == original_mod_entries[entry_index + 1]

\* the flat index of the database on disk holds the steam_id
InIndex(steam_id) ==
    \E k \in DOMAIN create_steam_id_lookup(db_file.mods) : k = steam_id

\* the stored versions of a steam_id of the flat index
IndexVersions(steam_id) ==
    create_steam_id_lookup(db_file.mods)[steam_id].versions

\* the keys of a version list, the sentinel alone for an empty list
KeysOf(versions) ==
    IF versions = <<>> THEN {<<0>>}
    ELSE {obsolete_replacements_get_version_key(v) : v \in SetOf(versions)}

\* the greatest key of the list a is strictly above every key of the list b
MaxStrictlyGreater(a, b) ==
    \E k \in KeysOf(a) : \A j \in KeysOf(b) : KeyLess(j, k)

\* the entry names a replacement, and the flat index holds the original and
\* the replacement
BothFound(entry) ==
    /\ entry.info.ReplacementSteamId \notin {Missing, ""}
    /\ InIndex(entry.id)
    /\ InIndex(entry.info.ReplacementSteamId)

\* the step removes the entry: a diagnostic for it, and it is not kept
Removes(entry) ==
    /\ Len(obsolete_mods_info') = Len(obsolete_mods_info) + 1
    /\ obsolete_mods_info'[Len(obsolete_mods_info')].id = entry.id
    /\ kept_mod_entries' = kept_mod_entries

\* the step keeps the entry as it is
Keeps(entry) ==
    /\ kept_mod_entries' = Append(kept_mod_entries, entry)
    /\ obsolete_mods_info' = obsolete_mods_info

C14_Step ==
    (PrunesEntry /\ BothFound(CurrentEntry)) =>
        IF MaxStrictlyGreater(
               IndexVersions(CurrentEntry.id),
               IndexVersions(CurrentEntry.info.ReplacementSteamId))
        THEN Removes(CurrentEntry)
        ELSE Keeps(CurrentEntry)

\* C14: a mapping entry whose original and replacement are both in the
\* database is removed if and only if the greatest key of the original's
\* stored versions is strictly above the greatest key of the replacement's
\* stored versions (the keys are those of the script's get_version_key);
\* with an equal or greater replacement maximum it is kept.
C14_PrunerDecision == [][C14_Step]_vars

\* original 1.5 against replacement 1.4: the entry was removed
C14_Witness ==
    /\ prune_pc = "analyze"
    /\ entry_index = 1
    /\ original_mod_entries[1] = MappingEntry(OriginalId, ReplacementId)
    /\ IndexVersions(OriginalId) = <<V15>>
    /\ IndexVersions(ReplacementId) = <<V14>>
    /\ Len(obsolete_mods_info) = 1
    /\ obsolete_mods_info[1].original_version = <<1, 5>>
    /\ obsolete_mods_info[1].replacement_version = <<1, 4>>
    /\ kept_mod_entries = <<>>

\* the script has run to its end and written the mapping
PruneComplete ==
    /\ prune_pc = "returned"
    /\ printed # <<>>
    /\ printed[Len(printed)].what = "complete"
    /\ replacements_file.state = "ok"

\* the versions the database holds for a steam_id, none when it has no
\* record of it
VersionsInDatabase(steam_id) ==
    IF steam_id \notin {Missing, ""} /\ InIndex(steam_id)
    THEN IndexVersions(steam_id) ELSE <<>>

\* the replacement's greatest key is not below the original's
ReplacementNotOlder(entry) ==
    ~MaxStrictlyGreater(VersionsInDatabase(entry.id),
                        VersionsInDatabase(entry.info.ReplacementSteamId))

\* C15 as it is stated: after the script has run, every entry that remains
\* in the mapping has a replacement whose greatest key in the database is
\* greater than or equal to the original's.
C15_EveryRemainingEntry ==
    PruneComplete =>
        \A i \in 1..Len(replacements_file.mods) :
            ReplacementNotOlder(replacements_file.mods[i])

\* C15, amended: after the script has run, every remaining entry whose
\* original and replacement are both in the database has a replacement
\* whose greatest key is greater than or equal to the original's.
C15_EveryEvaluatedEntry ==
    PruneComplete =>
        \A i \in 1..Len(replacements_file.mods) :
            BothFound(replacements_file.mods[i]) =>
                ReplacementNotOlder(replacements_file.mods[i])

\* of two entries whose mods are in the database one was removed, and the
\* one that remains has the newer replacement
C15_Witness ==
    /\ PruneComplete
    /\ Len(original_mod_entries) = 2
    /\ Len(obsolete_mods_info) = 1
    /\ Len(replacements_file.mods) = 1
    /\ BothFound(replacements_file.mods[1])
    /\ MaxStrictlyGreater(
           IndexVersions(replacements_file.mods[1].info.ReplacementSteamId),
           IndexVersions(replacements_file.mods[1].id))

\* the entry cannot be evaluated: no replacement reference, or the original
\* or the replacement is not in the flat index
NotEvaluable(entry) == ~BothFound(entry)

C16_Step ==
    /\ (PrunesEntry /\ NotEvaluable(CurrentEntry)) => Keeps(CurrentEntry)
    /\ (prune_pc = "dump" /\ prune_pc' = "returned") =>
          \A i \in 1..Len(original_mod_entries) :
              NotEvaluable(original_mod_entries[i]) =>
                  \E j \in 1..Len(replacements_file'.mods) :
                      replacements_file'.mods[j] = original_mod_entries[i]

\* C16: an entry without a replacement reference, an entry whose original is
\* not in the flat index and an entry whose replacement is not in the flat
\* index are kept, whatever the versions, and are in the mapping the script
\* writes.
C16_KeptDefensively == [][C16_Step]_vars

\* the original holds 1.6 and its replacement is not in the database: the
\* entry is in the written mapping
C16_Witness ==
    /\ PruneComplete
    /\ \E i \in 1..Len(replacements_file.mods) :
         /\ replacements_file.mods[i] = MappingEntry(OriginalId, AbsentId)
         /\ IndexVersions(OriginalId) = <<V16, V15>>
    /\ \E i \in 1..Len(printed) : printed[i].what = "replacement_absent"

\* the mappings the script can write: the sub-lists of its inputs
PruneOutputs ==
    UNION {{SelectSeq(m, LAMBDA e : e.id \in ids) :
               ids \in SUBSET {m[i].id : i \in 1..Len(m)}} :
           m \in PruneMappings}

\* C17: once a run has written its kept entries, every later run against
\* the same database removes nothing and writes the same mapping.
C17_PrunerIdempotent ==
    \A m \in PruneOutputs : \A r \in 1..MaxPruneRuns :
        []((PruneComplete /\ prune_runs = r /\ replacements_file.mods = m) =>
             []( /\ replacements_file.state = "ok" =>
                       replacements_file.mods = m
                 /\ prune_runs > r => obsolete_mods_info = <<>> ))

\* a first run removed an entry, and a second run on what it wrote has
\* written the same mapping
C17_Witness ==
    /\ PruneComplete
    /\ prune_runs = 2
    /\ original_mod_entries # <<>>
    /\ replacements_file.mods = original_mod_entries
    /\ obsolete_mods_info = <<>>
    /\ \E m \in PruneMappings :
         Len(m) > Len(original_mod_entries) /\ m[2] = original_mod_entries[1]

(***************************************************************************)
(* Properties of the rule lists.                                           *)
(***************************************************************************)
\* the rows of the three lists
AllRows(t) ==
    UNION {{<<all_list_types[i], j>> : j \in 1..Len(t[all_list_types[i]])} :
              i \in 1..Len(all_list_types)}

\* no package id, compared in lowercase, is in two rows of the three lists
OneBucketEach(t) ==
    \A r1, r2 \in AllRows(t) :
        lower(t[r1[1]][r1[2]].package_id) = lower(t[r2[1]][r2[2]].package_id)
            => r1 = r2

Validates ==
    /\ rule_ops' = rule_ops + 1
    /\ last_op'.kind \in {"add", "edit"}
    /\ last_op'.present
    /\ last_op'.kind = "edit" => last_op'.package_id # last_op'.old_package_id

\* the lists other than the target that hold the candidate
ConflictingLists ==
    {all_list_types[i] : i \in 1..Len(all_list_types)} \cap
    {t \in DOMAIN trees :
        t # last_op'.list_type /\ ListHas(trees[t], last_op'.package_id)}

C19_Step ==
    /\ Validates =>
          IF ListHas(trees[last_op'.list_type], last_op'.package_id)
          THEN /\ messagebox'.title = "Duplicate Entry"
               /\ trees' = trees
          ELSE ConflictingLists # {} =>
                 /\ messagebox'.title = "Rule Conflict"
                 /\ messagebox'.list_type \in ConflictingLists
                 /\ trees' = trees
    /\ messagebox'.title \in {"Duplicate Entry", "Rule Conflict"} =>
          trees' = trees

Parsers == {"db_updater", "obsolete_replacements"}

\* a dotted string: parts of decimal digits, none empty, between single dots
WellFormed(value) ==
    /\ value # None
    /\ \A i \in 1..Len(SplitDots(value)) :
          /\ SplitDots(value)[i] # <<>>
          /\ \A j \in 1..Len(SplitDots(value)[i]) :
                SplitDots(value)[i][j] \in Digits

\* every call returned a tuple: none raised
C20_NeverRaises ==
    \A p \in Parsers :
        version_key[p] # NotCalled =>
            /\ version_key[p].raised = ""
            /\ version_key[p].key # <<>>

\* C20: get_version_key is total and maps every malformed input to the
\* sentinel: for None and for every string, each script's parser returns a
\* tuple without raising, and the tuple is (0,) whenever the input is not a
\* well-formed dotted string.
C20_MalformedGivesSentinel ==
    \A p \in Parsers :
        version_key[p] # NotCalled =>
            /\ version_key[p].raised = ""
            /\ ~WellFormed(version_arg) => version_key[p].key = <<0>>

\* "1.5b" has a non-numeric part: the updater's parser gave (0,) and the
\* maintenance script's parser gave (1, 5)
C20_Witness ==
    /\ version_arg = V15b
    /\ version_key.db_updater = Returned(<<0>>)
    /\ version_key.obsolete_replacements = Returned(<<1, 5>>)

\* C30: the updater's merge, the replacement manager's up-to-date rule and
\* the maintenance script compute the same key for every version string, so
\* that they rank any two strings alike.
C30_SameKeyEverywhere ==
    \A p1, p2 \in DOMAIN version_key :
        (version_key[p1] # NotCalled /\ version_key[p2] # NotCalled)
            => version_key[p1] = version_key[p2]

\* for "1-5" the updater and the replacement manager gave (0,) and the
\* maintenance script gave (15,), above the key (1, 6) of "1.6"
C30_Witness ==
    /\ version_arg = <<"1", "-", "5">>
    /\ version_key.db_updater = Returned(<<0>>)
    /\ version_key.replace_update = Returned(<<0>>)
    /\ version_key.obsolete_replacements = Returned(<<15>>)
    /\ KeyLess(get_version_key(V16), version_key.obsolete_replacements.key)
    /\ KeyLess(version_key.db_updater.key, get_version_key(V16))

(***************************************************************************)
(* Properties of the maximum of a version list.                            *)
(***************************************************************************)
\* key is the key, under keys_of, of an element of the list and no element
\* has a greater one
GreatestKeyOf(key, list, keys_of) ==
    /\ \E i \in 1..Len(list) : key = keys_of[i]
    /\ \A i \in 1..Len(list) : KeyLeq(keys_of[i], key)

\* C21: the maximum of a version list is (0,) for the empty list, and for a
\* non-empty list it is the key of one of the elements and is greater than
\* or equal to the key of every element, in the maintenance script
\* (get_max_version_key_from_list) and in the updater's merge (lines 184-185,
\* taken of non-empty sets only).
C21_MaxOf ==
    /\ max_version.obsolete_replacements # NotCalled =>
          IF versions_arg = <<>>
          THEN max_version.obsolete_replacements.key = <<0>>
          ELSE GreatestKeyOf(
                   max_version.obsolete_replacements.key, versions_arg,
                   [i \in 1..Len(versions_arg) |->
                       obsolete_replacements_get_version_key(versions_arg[i])])
    /\ max_version.db_updater # NotCalled =>
          GreatestKeyOf(
              max_version.db_updater.key, versions_arg,
              [i \in 1..Len(versions_arg) |-> get_version_key(versions_arg[i])])

\* both scripts took the maximum of ["1.5", "1.6", "not a version"], whose
\* greatest element is neither first nor last
C21_Witness ==
    /\ versions_arg = <<V15, V16, NotAVersion>>
    /\ max_version.obsolete_replacements.key = <<1, 6>>
    /\ max_version.db_updater.key = <<1, 6>>

\* int() accepts every dotted part of the string
Parseable(version_str) == split_int_raises(version_str) = ""

\* C22: (0,) is the lowest key: it is less than or equal to the key of every
\* parseable version string, and of a list that holds a parseable string the
\* element selected as the maximum, by the updater's merge and by the
\* replacement manager's up-to-date rule, is a parseable one.
C22_SentinelLowest ==
    /\ \A i \in 1..Len(versions_arg) :
          Parseable(versions_arg[i]) =>
              KeyLeq(<<0>>, get_version_key(versions_arg[i]))
    /\ \A script \in {"db_updater", "replace_update"} :
          (/\ max_version[script] # NotCalled
           /\ \E i \in 1..Len(versions_arg) : Parseable(versions_arg[i]))
              => Parseable(max_version[script].element)

\* of ["notaversion", "0"] the replacement manager selected "notaversion":
\* "0" has the key of the sentinel and max keeps the first of equal keys
C22_Witness ==
    /\ versions_arg = <<NotAVersion, VZero>>
    /\ max_version.replace_update = Selected(NotAVersion, <<0>>)
    /\ max_version.db_updater = Selected(NotAVersion, <<0>>)

(***************************************************************************)
(* Properties of the load and the save of the database.                    *)
(***************************************************************************)
\* C23: at every point of a run, where the process may stop, the database
\* file and the replacement-mapping file hold a complete document, the prior
\* or the new one: neither is ever empty or partly written.
C23_AtomicSave ==
    /\ db_file.state # "truncated"
    /\ replacements_file.state # "truncated"

\* a database was loaded from the file and the file is open for writing:
\* it is empty and the new content is in memory only
C23_Witness ==
    /\ pc = "dump"
    /\ db_file = [state |-> "truncated", mods |-> EmptyDB]
    /\ db_data # EmptyDB
    /\ \A i \in 1..Len(q) : q[i].text \notin {"db not found", "could not load"}

C24_Step ==
    db_file.state = "corrupt" =>
        /\ pc' \notin {"scan", "fetch", "save", "dump"}
        /\ db_file' = db_file

\* C24: when the database file exists and cannot be read or parsed, the run
\* fails as a whole: it does not go on to scan with an empty database and
\* the file is not overwritten.
C24_CorruptDatabaseFailsRun == [][C24_Step]_vars

\* the file could not be loaded, the run went on and saved the database it
\* rebuilt from the scan over it
C24_Witness ==
    /\ pc = "done"
    /\ db_file.state = "ok"
    /\ db_file.mods # EmptyDB
    /\ \E i \in 1..Len(q) : q[i] = Msg("error_log", "could not load", 0)

(***************************************************************************)
(* Properties of the run as a whole.                                       *)
(***************************************************************************)
\* C25: an update run is not stopped by a failing lookup or by what a remote
\* result holds: it does not end before the save, and from the save on every
\* worklist item is counted as enriched or as failed, so that enriched +
\* failed is the number of inserted records.
C25_RunsToCompletion ==
    /\ pc \notin {"raised", "failed"}
    /\ pc \in {"save", "dump", "summary", "done"} =>
          successful_api_updates + failed_api_updates = mods_added_count

\* a found lookup carried a tag value that is a number: the run ended with
\* the fatal error and "done", the database file is as it was and the record
\* it inserted is in memory only
C25_Witness ==
    /\ pc = "failed"
    /\ q[Len(q)] = Msg("done", "", 0)
    /\ db_file.state = "missing"
    /\ db_data # EmptyDB
    /\ \E i \in DOMAIN task_state : task_state[i] = "raised"
    /\ successful_api_updates + failed_api_updates < mods_added_count

\* the result is absent, or found without a tag of the version pattern
NoRemoteVersions(api_result) ==
    \/ ~api_result.present
    \/ SelectSeq(api_result.tags, VERSION_REGEX_match) = <<>>

C26_Step ==
    \A i \in DOMAIN task_state :
        LET mod_ref == mods_to_fetch_from_api[i].ref
        IN  (/\ Applies(i)
             /\ db_data[mod_ref].versions # <<>>
             /\ NoRemoteVersions(task_result[i][2]))
                => db_data'[mod_ref].versions = db_data[mod_ref].versions

\* C26: a record inserted with a non-empty observed version list keeps that
\* list when the result of its lookup is applied and the result is absent,
\* or is found and carries no tag of the version pattern.
C26_LocalVersionsKept == [][C26_Step]_vars

\* the records the run inserted
InsertedKeys ==
    {mods_to_fetch_from_api[i].ref : i \in 1..Len(mods_to_fetch_from_api)}

C29_Step ==
    \* a record modified by the merge
    /\ (/\ pc = "scan"
        /\ scan_counter' = scan_counter + 1
        /\ last_branch' \in {"populate", "replace"})
           => IsSortedByKey(db_data'[<<local_mod_info'.package_id,
                                      local_mod_info'.steam_id>>].versions)
    \* the records created by the run, enriched or not, as they are saved
    /\ (pc = "dump" /\ pc' = "summary")
           => \A k \in InsertedKeys : IsSortedByKey(db_file'.mods[k].versions)

\* C29: in the database an update run saves, every record the run created
\* or modified has its version list in ascending VersionKey order: the
\* populate-empty and replace paths of the merge, and the inserted records
\* after a failed or a successful enrichment.
C29_SavedListsSorted == [][C29_Step]_vars

\* a mod was inserted with the observed list ["1.6", "1.5"], its lookup
\* failed, and the list is saved in that order
C29_Witness ==
    /\ pc = "done"
    /\ db_file.state = "ok"
    /\ \E k \in InsertedKeys \cap DOMAIN db_file.mods :
         db_file.mods[k] = [NewData(<<V16, V15>>) EXCEPT !.published = "False"]

(***************************************************************************)
(* Properties of successive update runs.                                   *)
(***************************************************************************)
\* the step scans a folder and fills the empty version list of its record
Populates ==
    /\ pc = "scan"
    /\ scan_counter' = scan_counter + 1
    /\ last_branch' = "populate"

C27_Step ==
    Populates =>
        db_data[<<local_mod_info'.package_id,
                  local_mod_info'.steam_id>>].published = "True"

\* C27: over successive update runs, whenever the merge fills the empty
\* stored version list of a record from the observed versions, the record
\* has published = true.
C27_PopulateOnlyEnriched == [][C27_Step]_vars

\* in the second run the merge filled the version list of a record that the
\* first run had inserted without versions and whose lookup had failed
C27_Witness ==
    /\ update_runs = 2
    /\ last_branch = "populate"
    /\ LET key == <<local_mod_info.package_id, local_mod_info.steam_id>>
       IN  /\ db_data[key].published = "False"
           /\ db_data[key].versions # <<>>
           /\ db_file.mods[key] = [NewData(<<>>) EXCEPT !.published = "False"]

\* no steam_id is under two package ids
UniqueSteamIds(mods) ==
    \A k1, k2 \in DOMAIN mods : k1[2] = k2[2] => k1 = k2

\* C28: after any sequence of update runs from an empty database, no
\* steam_id is in the database under two package ids, in memory and in the
\* saved file, so that an index by steam_id holds every record.
C28_SteamIdUnique ==
    /\ UniqueSteamIds(db_data)
    /\ UniqueSteamIds(db_file.mods)
    /\ Cardinality({k[2] : k \in DOMAIN db_file.mods}) =
          Cardinality(DOMAIN db_file.mods)

\* the folder of the first run's mod a.b held the package id c.d in the
\* second run: the saved database has two records of the steam_id
C28_Witness ==
    /\ update_runs = 2
    /\ pc = "done"
    /\ db_file.state = "ok"
    /\ <<"a.b", FolderNames[1]>> \in DOMAIN db_file.mods
    /\ <<"c.d", FolderNames[1]>> \in DOMAIN db_file.mods


(***************************************************************************)
(* The comparison of keys in the merge and in the maintenance script: the  *)
(* updater scans one folder whose record is in the database, and the       *)
(* script is run on the same database file.                                *)
(***************************************************************************)
\* version lists whose greatest keys are equal, different in a component, or
\* one a proper prefix of the other
CompareVersionLists ==
    {<<V15>>, <<V150>>, <<V16>>, <<V14, V15>>, <<V15, V150>>}

\* the record the scanned folder belongs to: the replacement mod
CompareKey == DbFileOrder[2]

CompareDatabases ==
    {Put(Put(EmptyDB, DbFileOrder[1], StoredRecord(vo, "True")),
         DbFileOrder[2], StoredRecord(vr, "True")) :
        vo \in CompareVersionLists, vr \in CompareVersionLists}

CompareInfos ==
    {[package_id |-> CompareKey[1], steam_id |-> CompareKey[2],
      data |-> NewData(v)] : v \in CompareVersionLists}

InitCompare ==
    /\ \E d \in CompareDatabases :
         /\ db_file = [state |-> "ok", mods |-> d]
         /\ db_data = d
    /\ remote = [sid \in SetOf(FolderNames) |-> RunResponses(sid)]
    /\ pc = "scan"
    /\ total_mods = 1
    /\ scan_counter = 0
    /\ local_mod_info = NoInfo
    /\ last_branch = "none"
    /\ mods_to_fetch_from_api = <<>>
    /\ versions_updated_count = 0
    /\ mods_added_count = 0
    /\ semaphore = 0
    /\ pending_tasks = <<>>
    /\ ref_map = <<>>
    /\ task_state = <<>>
    /\ response = <<>>
    /\ task_result = <<>>
    /\ api_counter = 0
    /\ successful_api_updates = 0
    /\ failed_api_updates = 0
    /\ apply_hits = <<>>
    /\ q = <<Msg("log", "scanning", 0), Msg("scan_progress_config", "", 1)>>
    /\ replacements_file =
         [state |-> "ok",
          mods |-> <<MappingEntry(OriginalId, ReplacementId)>>]
    /\ prune_pc = "start"
    /\ prune_runs = 0
    /\ steam_id_lookup = <<>>
    /\ original_mod_entries = <<>>
    /\ entry_index = 0
    /\ kept_mod_entries = <<>>
    /\ obsolete_mods_info = <<>>
    /\ printed = <<>>
    /\ RulesManagerStart
    /\ ParserStart
    /\ update_runs = 1
    /\ ReplacerStart

\* the loop body of the scan on the folder of the replacement mod
CompareObservation ==
    /\ pc = "scan"
    /\ scan_counter < total_mods
    /\ scan_counter' = scan_counter + 1
    /\ \E info \in CompareInfos : ScanBody(info)
    /\ UNCHANGED <<db_file, remote, tools_vars, pc, total_mods, fetch_vars,
                   apply_vars>>

NextCompare ==
    \/ CompareObservation
    \/ PruneLoad
    \/ PruneEntry
    \/ PruneSaveOpen
    \/ PruneSaveDump

SpecCompare == InitCompare /\ [][NextCompare]_vars


(***************************************************************************)
(* Properties of the comparison of keys.                                   *)
(***************************************************************************)
\* the lexicographic order on tuples: the first component in which a and b
\* differ decides, and when they do not differ in any component they share,
\* the shorter one is the lesser
LexLess(a, b) ==
    LET n == IF Len(a) < Len(b) THEN Len(a) ELSE Len(b)
        differ == {i \in 1..n : a[i] # b[i]}
    IN  IF differ = {} THEN Len(a) < Len(b)
        ELSE LET i == CHOOSE i \in differ : \A j \in differ : i <= j
             IN  a[i] < b[i]

\* the greatest key of a non-empty set of keys in the lexicographic order
LexMax(keys) == CHOOSE k \in keys : \A j \in keys : ~LexLess(k, j)

UpdaterKeys(versions) == {get_version_key(v) : v \in SetOf(versions)}

C31_MergeStep ==
    (/\ ScansInfo
     /\ ObservedKey \in DOMAIN db_data
     /\ ObservedVersions # <<>>
     /\ db_data[ObservedKey].versions # <<>>) =>
        LET max_local == LexMax(UpdaterKeys(ObservedVersions))
            max_db    == LexMax(UpdaterKeys(db_data[ObservedKey].versions))
        IN  /\ LexLess(max_db, max_local) =>
                /\ last_branch' = "replace"
                /\ SetOf(db_data'[ObservedKey].versions) =
                       SetOf(ObservedVersions)
            /\ LexLess(max_local, max_db) =>
                /\ last_branch' = "keep"
                /\ db_data' = db_data

C31_PruneStep ==
    (PrunesEntry /\ BothFound(CurrentEntry)) =>
        LET original_max ==
                LexMax(KeysOf(IndexVersions(CurrentEntry.id)))
            replacement_max ==
                LexMax(KeysOf(IndexVersions(
                                  CurrentEntry.info.ReplacementSteamId)))
        IN  IF LexLess(replacement_max, original_max)
            THEN Removes(CurrentEntry)
            ELSE Keeps(CurrentEntry)

\* C31: keys are compared lexicographically, component by component, and a
\* key that is a proper prefix of another one is strictly less than it (the
\* key of 1.5 is below the key of 1.5.0); the merge of an existing record
\* and the decision of the maintenance script both follow this order.
C31_LexicographicOrder ==
    [][/\ C31_MergeStep
       /\ C31_PruneStep
       /\ KeyLess(get_version_key(V15), get_version_key(V150))
       /\ ~KeyLess(get_version_key(V150), get_version_key(V15))]_vars

\* the stored 1.5 of the scanned record was replaced by the observed 1.5.0,
\* and the script removed the entry of the original mod with 1.5.0 whose
\* replacement has 1.5
C31_Witness ==
    /\ last_branch = "replace"
    /\ db_file.mods[CompareKey].versions = <<V15>>
    /\ db_data[CompareKey].versions = <<V150>>
    /\ db_file.mods[DbFileOrder[1]].versions = <<V150>>
    /\ prune_pc = "returned"
    /\ Len(obsolete_mods_info) = 1
    /\ obsolete_mods_info[1].original_version = <<1, 5, 0>>
    /\ obsolete_mods_info[1].replacement_version = <<1, 5>>
    /\ kept_mod_entries = <<>>

(***************************************************************************)
(* Properties of the published flag.                                       *)
(***************************************************************************)
\* the step applies the result of a found lookup to the record k
EnrichedBy(k) ==
    \E i \in DOMAIN task_state :
        /\ Applies(i)
        /\ task_result[i][2].present
        /\ mods_to_fetch_from_api[i].ref = k

\* the step applies the result of a failed lookup to the record k
FailedFor(k) ==
    \E i \in DOMAIN task_state :
        /\ Applies(i)
        /\ ~task_result[i][2].present
        /\ mods_to_fetch_from_api[i].ref = k

\* published = true of the record k in the "mods" d
PublishedIn(d, k) == k \in DOMAIN d /\ d[k].published = "True"

C32_Step ==
    /\ scan_counter' # scan_counter =>
          /\ \A k \in DOMAIN db_data :
                /\ k \in DOMAIN db_data'
                /\ db_data'[k].published = db_data[k].published
          /\ \A k \in DOMAIN db_data' \ DOMAIN db_data :
                db_data'[k].published = "unset"
    /\ \A k \in DOMAIN db_data' :
          /\ (PublishedIn(db_data', k) /\ ~PublishedIn(db_data, k)) =>
                \/ EnrichedBy(k)
                \/ pc = "load" /\ PublishedIn(db_file.mods, k)
          /\ FailedFor(k) => db_data'[k].published = "False"

\* C32: published becomes true on a record only when the result of a found
\* lookup is applied to that record (or the record is loaded with it from the
\* file); the scan and merge of a folder leaves the flag of every record as
\* it is and inserts a record without it; after a failed lookup is applied
\* the record it was issued for has published = false.
C32_PublishedOnlyByEnrichment == [][C32_Step]_vars

\* one inserted record was enriched and another one's lookup failed, next to
\* a record loaded from the file
C32_Witness ==
    /\ pc = "fetch"
    /\ successful_api_updates >= 1
    /\ failed_api_updates >= 1
    /\ \E k1, k2 \in DOMAIN db_data \ DOMAIN db_file.mods :
          /\ db_data[k1].published = "True"
          /\ db_data[k2].published = "False"
    /\ \E k \in DOMAIN db_file.mods : db_data[k] = db_file.mods[k]

(***************************************************************************)
(* Properties of the records kept by a run.                                *)
(***************************************************************************)
C33_Step ==
    /\ \A k \in DOMAIN db_file.mods :
          \/ k \in DOMAIN db_file'.mods
          \/ pc = "save" /\ pc' = "dump" /\ k \in DOMAIN db_data
    /\ pc = "dump" => \A k \in DOMAIN db_data : k \in DOMAIN db_file'.mods

\* C33: an update run deletes no record: every (package id, steam_id) record
\* of the database file stays in the file in every step, but for the moment
\* between the opening of the file and the writing of the data, and then the
\* record is among the data that is written.
C33_NoRecordDeleted == [][C33_Step]_vars

\* the file held records and could not be read; the run has written the
\* database it built from the scan, which does not hold them
C33_Witness ==
    /\ pc \in {"summary", "done"}
    /\ db_file.state = "ok"
    /\ <<"a.b", "4242">> \notin DOMAIN db_file.mods
    /\ \E k \in DOMAIN db_file.mods : k[2] \in SetOf(FolderNames)

(***************************************************************************)
(* Properties of the messages of a run.                                    *)
(***************************************************************************)
\* the positions of the completion signal in the queue
DoneSignals(queue) == {i \in 1..Len(queue) : queue[i].type = "done"}

\* the worker thread has ended, normally or on a fatal error
RunEnded == pc \in {"done", "failed"}

C34_Queue ==
    /\ Cardinality(DoneSignals(q)) <= 1
    /\ DoneSignals(q) # {} => DoneSignals(q) = {Len(q)}
    /\ RunEnded <=> DoneSignals(q) # {}

C34_Step ==
    DoneSignals(q) # {} =>
        \/ q' = q
        \/ update_runs' = update_runs + 1 /\ q' = <<>>

\* C34: in every update run the queue holds the completion signal "done" if
\* and only if the worker has ended, normally or on a fatal error; it holds
\* it once, as its last message, and nothing is put on the queue after it
\* until the next run is started.
C34_OneDoneSignalLast == [](C34_Queue) /\ [][C34_Step]_vars

\* a second run that stopped on a fatal error: the error message and then
\* "done" end the queue
C34_Witness ==
    /\ update_runs = 2
    /\ pc = "failed"
    /\ Len(q) >= 3
    /\ q[Len(q)].type = "done"
    /\ q[Len(q) - 1].type = "error_log"
    /\ \E i \in 1..(Len(q) - 2) : q[i].type = "api_progress_config"

(***************************************************************************)
(* Properties of what the maintenance script keeps.                        *)
(***************************************************************************)
\* the keys of a list of entries or of diagnostics
IdsOf(list) == {list[i].id : i \in 1..Len(list)}

\* the entries the loop has been through
AnalyzedEntries == SubSeq(original_mod_entries, 1, entry_index)

C35_Partition ==
    /\ IdsOf(kept_mod_entries) \cap IdsOf(obsolete_mods_info) = {}
    /\ IdsOf(kept_mod_entries) \cup IdsOf(obsolete_mods_info) =
          IdsOf(AnalyzedEntries)
    /\ Len(kept_mod_entries) + Len(obsolete_mods_info) = entry_index
    /\ \A i \in 1..Len(kept_mod_entries) :
          \E j \in 1..entry_index :
              kept_mod_entries[i] = original_mod_entries[j]
    /\ (prune_pc = "dump" \/
        (prune_pc = "returned" /\ printed # <<>> /\
         printed[Len(printed)].what \in {"complete", "save_error"})) =>
          entry_index = Len(original_mod_entries)

C35_Step ==
    /\ db_file' = db_file
    /\ replacements_file' # replacements_file =>
          \/ replacements_file' = [state |-> "truncated", mods |-> <<>>]
          \/ replacements_file' = [state |-> "ok", mods |-> kept_mod_entries]

\* C35: the maintenance script only filters. It never writes the database;
\* at every point of the loop the kept entries and the removed diagnostics
\* have no key in common and between them every key of the entries looked at
\* so far, each once; every kept entry is the input entry of its key, field
\* by field; and what is written to replacements.json is the kept entries.
C35_PrunerOnlyFilters == [](C35_Partition) /\ [][C35_Step]_vars

\* of two entries one was kept and one removed, and the file was written
C35_Witness ==
    /\ prune_pc = "returned"
    /\ Len(original_mod_entries) = 2
    /\ Len(kept_mod_entries) = 1
    /\ Len(obsolete_mods_info) = 1
    /\ kept_mod_entries[1] = original_mod_entries[2]
    /\ obsolete_mods_info[1].id = original_mod_entries[1].id
    /\ replacements_file = [state |-> "ok", mods |-> kept_mod_entries]

(***************************************************************************)
(* Properties of the progress of the scan.                                 *)
(***************************************************************************)
\* the sum of the "scan_progress_update" ticks of a queue
RECURSIVE ScanTickSum(_)
ScanTickSum(queue) ==
    IF queue = <<>> THEN 0
    ELSE (IF queue[Len(queue)].type = "scan_progress_update"
          THEN queue[Len(queue)].n ELSE 0)
         + ScanTickSum(SubSeq(queue, 1, Len(queue) - 1))

\* the loop over the folders has ended
ScanEnded == pc # "load" /\ scan_counter = total_mods

\* C36: when the scan of an update run has ended, the scan progress ticks on
\* the queue sum to the number of scanned folders, whichever action the
\* merge took for each folder.
C36_ScanTicksSumToTotal == ScanEnded => ScanTickSum(q) = total_mods

\* the last folder's record had no stored versions and was populated: the
\* scan of the two folders ended without a tick
C36_Witness ==
    /\ pc = "scan"
    /\ scan_counter = MaxFolders
    /\ total_mods = MaxFolders
    /\ last_branch = "populate"
    /\ ScanTickSum(q) = 0

(***************************************************************************)
(* Properties of a run that stops on an exception.                         *)
(***************************************************************************)
\* an exception has left async_worker
WorkerStopped == pc \in {"raised", "failed"}

\* C37: when an exception leaves the worker before the save step (the mods
\* directory cannot be listed, or the application of a fetch result raises),
\* the database file is, from then on, exactly the file the run started
\* with: the database reconciled so far is not written.
C37_FileUntouchedOnException ==
    \A file \in DatabaseFiles :
        (db_file = file) => [](WorkerStopped => db_file = file)

\* the run stopped on the application of a result after it had inserted
\* records and enriched one of them: the file is as it was
C37_Witness ==
    /\ pc = "failed"
    /\ successful_api_updates >= 1
    /\ db_file.state = "ok"
    /\ \E k \in DOMAIN db_data \ DOMAIN db_file.mods :
          db_data[k].published = "True"

(***************************************************************************)
(* replace_update.py: the "Replacement is up-to-date" rule on the versions *)
(* of the two mods as the manager loaded them from db.json.                *)
(***************************************************************************)
\* line 46: the "versions" of a record as _load_and_flatten_db_json keeps
\* them, every string stripped
flattened_versions(versions) ==
    [i \in 1..Len(versions) |-> Strip(versions[i])]

\* lines 248-250 of validate_rules, on the versions of the original and of
\* the replacement
rule4_ok(original_versions, replacement_versions) ==
    LET max_orig_ver == replace_update_max(original_versions)
        max_repl_ver == replace_update_max(replacement_versions)
    IN  KeyLeq(replace_update_get_version_key(max_orig_ver),
               replace_update_get_version_key(max_repl_ver))

(***************************************************************************)
(* Properties of the manager's rule against the maintenance script.        *)
(***************************************************************************)
\* the manager, with the two mods of the entry loaded from the database,
\* shows "Replacement is up-to-date" as satisfied
ManagerAccepts(entry) ==
    rule4_ok(flattened_versions(IndexVersions(entry.id)),
             flattened_versions(
                 IndexVersions(entry.info.ReplacementSteamId)))

C38_Step ==
    (/\ PrunesEntry
     /\ BothFound(CurrentEntry)
     /\ ManagerAccepts(CurrentEntry)) => Keeps(CurrentEntry)

\* C38: a mapping entry whose original and replacement are in the database
\* and for which the manager's rule "Replacement is up-to-date" holds
\* (replacement max key >= original max key) is kept by the maintenance
\* script run on that database.
C38_ManagerAndPrunerAgree == [][C38_Step]_vars

\* the original has 1.5b and the replacement 1.4: the manager's keys are
\* (0,) and (1, 4) and the rule holds; the script compared (1, 5) with
\* (1, 4) and removed the entry
C38_Witness ==
    /\ prune_pc = "analyze"
    /\ entry_index = 1
    /\ original_mod_entries[1] = MappingEntry(OriginalId, ReplacementId)
    /\ IndexVersions(OriginalId) = <<V15b, NotAVersion>>
    /\ IndexVersions(ReplacementId) = <<V14>>
    /\ ManagerAccepts(original_mod_entries[1])
    /\ Len(obsolete_mods_info) = 1
    /\ obsolete_mods_info[1].original_version = <<1, 5>>
    /\ obsolete_mods_info[1].replacement_version = <<1, 4>>
    /\ kept_mod_entries = <<>>

(***************************************************************************)
(* replace_update.py: the two slots of the replacement manager. A click on *)
(* "Fetch Info" starts async_fetch_worker, which puts its messages on the  *)
(* queue; process_queue takes them one by one.                             *)
(***************************************************************************)
\* "mods" of the databases the manager may have loaded at startup: the
\* original and the replacement, or the replacement alone
ReplacerDatabases ==
    {Put(Put(EmptyDB, DbFileOrder[1], StoredRecord(<<V15>>, "True")),
         DbFileOrder[2], StoredRecord(<<V16>>, "True")),
     Put(EmptyDB, DbFileOrder[2], StoredRecord(<<V16>>, "True"))}

\* "mods" of replacements.json: no relationship, or one relationship whose
\* original or replacement may be a mod the database does not hold
ReplacerMappings ==
    {<<>>,
     <<MappingEntry(OriginalId, ReplacementId)>>,
     <<MappingEntry(OriginalId, AbsentId)>>,
     <<MappingEntry(AbsentId, ReplacementId)>>}

\* the Steam IDs typed into a panel
TypedIds == {OriginalId, ReplacementId, AbsentId}

PanelTypes == {"original", "replacement"}

\* load_replacements_file().get("mods", {})
load_replacements_file ==
    IF replacements_file.state = "ok" THEN replacements_file.mods ELSE <<>>

\* the pair (original, replacement) of the relationship the steam_id is the
\* original of, <<>> for None
get_relationship_info_from_json_as_original(steam_id, replacements) ==
    IF \E i \in 1..Len(replacements) : replacements[i].id = steam_id
    THEN LET i == CHOOSE i \in 1..Len(replacements) :
                      replacements[i].id = steam_id
         IN  <<steam_id, replacements[i].info.ReplacementSteamId>>
    ELSE <<>>

\* get_mod_info_from_db on _GLOBAL_DB_DATA_BY_STEAMID, the flat index of the
\* database by steam_id: the data of the mod, NoModInfo for None
get_mod_info_from_db(steam_id) ==
    LET mod_data == dict_get(create_steam_id_lookup(db_file.mods), steam_id)
    IN  IF mod_data # NoRecord
        THEN [steam_id |-> steam_id,
              versions |-> flattened_versions(mod_data.versions),
              is_valid_on_steam |-> mod_data.published = "True"]
        ELSE NoModInfo

\* a message of the manager's queue: its type and its data
ReplacerMsg(msg_type, panel_type, steam_id, mod_data, is_existing) ==
    [msg_type |-> msg_type, panel_type |-> panel_type, steam_id |-> steam_id,
     mod_data |-> mod_data, is_existing_relationship_load |-> is_existing]

\* one lookup of async_fetch_worker: the message it puts, of the type with
\* the given prefix
LookupMessage(prefix, panel_type, steam_id, is_existing) ==
    LET mod_data == get_mod_info_from_db(steam_id)
    IN  IF mod_data # NoModInfo
        THEN ReplacerMsg(prefix \o "success", panel_type, steam_id, mod_data,
                         is_existing)
        ELSE ReplacerMsg(prefix \o "failure", panel_type, steam_id,
                         NoModInfo, FALSE)

\* async_fetch_worker: the messages it puts on the queue, in order
async_fetch_worker(clicked_panel_type, steam_id) ==
    LET relationship_as_original ==
            get_relationship_info_from_json_as_original(
                steam_id, load_replacements_file)
    IN  IF relationship_as_original # <<>>
        THEN <<LookupMessage("", "original", relationship_as_original[1],
                             TRUE),
               LookupMessage("", "replacement", relationship_as_original[2],
                             TRUE)>>
        ELSE <<LookupMessage(clicked_panel_type \o "_", clicked_panel_type,
                             steam_id, FALSE)>>

\* msg_type.split('_')[0] of the types async_fetch_worker puts
split_first(msg_type) ==
    CASE msg_type \in {"original_failure", "original_success"} -> "original"
      [] msg_type \in {"replacement_failure", "replacement_success"} ->
            "replacement"
      [] OTHER -> msg_type

\* fetch_mod_info_thread: a click on "Fetch Info" of a panel that is not
\* locked; the worker thread runs and puts its messages
FetchModInfo(panel_type, steam_id) ==
    /\ fetch_clicks < MaxFetchClicks
    /\ fetch_clicks' = fetch_clicks + 1
    /\ panel_type = "original" => ~managing_existing_relationship
    /\ IF ~managing_existing_relationship \/ panel_type = "replacement"
       THEN \* _reset_panel_ui(panel_type)
            /\ original_mod' =
                 IF panel_type = "original" THEN NoModInfo ELSE original_mod
            /\ replacement_mod' =
                 IF panel_type = "original" THEN replacement_mod
                 ELSE NoModInfo
       ELSE UNCHANGED <<original_mod, replacement_mod>>
    /\ replacer_queue' =
         replacer_queue \o async_fetch_worker(panel_type, steam_id)
    /\ UNCHANGED <<db_file, replacements_file, managing_existing_relationship,
                   remote, pc, db_data, scan_vars, merge_vars, fetch_vars,
                   apply_vars, q, update_runs, prune_pc, prune_runs,
                   steam_id_lookup, original_mod_entries, entry_index,
                   kept_mod_entries, obsolete_mods_info, printed, rules_vars,
                   parse_vars>>

\* line 155: the panel a failure message is taken to be about
FailurePanel(msg) == split_first(msg.msg_type)

\* process_queue, lines 140-164, on the next message of the queue
ProcessReplacerMessage ==
    /\ replacer_queue # <<>>
    /\ replacer_queue' = Tail(replacer_queue)
    /\ LET msg == Head(replacer_queue)
       IN  IF msg.msg_type \in {"success", "original_success",
                                "replacement_success"}
           THEN /\ IF msg.panel_type = "original"
                   THEN /\ original_mod' = msg.mod_data
                        /\ UNCHANGED replacement_mod
                   ELSE /\ replacement_mod' = msg.mod_data
                        /\ UNCHANGED original_mod
                /\ managing_existing_relationship' =
                     (managing_existing_relationship
                      \/ msg.is_existing_relationship_load)
           ELSE /\ IF FailurePanel(msg) = "original"
                   THEN /\ original_mod' = NoModInfo
                        /\ UNCHANGED replacement_mod
                   ELSE /\ replacement_mod' = NoModInfo
                        /\ UNCHANGED original_mod
                /\ UNCHANGED managing_existing_relationship
    /\ UNCHANGED <<db_file, replacements_file, fetch_clicks,
                   remote, pc, db_data, scan_vars, merge_vars, fetch_vars,
                   apply_vars, q, update_runs, prune_pc, prune_runs,
                   steam_id_lookup, original_mod_entries, entry_index,
                   kept_mod_entries, obsolete_mods_info, printed, rules_vars,
                   parse_vars>>

InitReplacer ==
    /\ db_file \in {[state |-> "ok", mods |-> d] : d \in ReplacerDatabases}
    /\ replacements_file \in
         {[state |-> "ok", mods |-> m] : m \in ReplacerMappings}
    /\ remote = [sid \in SetOf(FolderNames) |-> RunResponses(sid)]
    /\ WorkerStart
    /\ prune_pc = "start"
    /\ prune_runs = 0
    /\ steam_id_lookup = <<>>
    /\ original_mod_entries = <<>>
    /\ entry_index = 0
    /\ kept_mod_entries = <<>>
    /\ obsolete_mods_info = <<>>
    /\ printed = <<>>
    /\ RulesManagerStart
    /\ ParserStart
    /\ update_runs = 1
    /\ ReplacerStart

NextReplacer ==
    \/ \E panel_type \in PanelTypes, steam_id \in TypedIds :
          FetchModInfo(panel_type, steam_id)
    \/ ProcessReplacerMessage

SpecReplacer == InitReplacer /\ [][NextReplacer]_vars


(***************************************************************************)
(* Properties of the slots of the replacement manager.                     *)
(***************************************************************************)
\* the step takes a failure message about the given panel from the queue
TakesFailureFor(panel_type) ==
    /\ replacer_queue # <<>>
    /\ replacer_queue' = Tail(replacer_queue)
    /\ Head(replacer_queue).msg_type \in
           {"failure", "original_failure", "replacement_failure"}
    /\ Head(replacer_queue).panel_type = panel_type

C39_Step ==
    /\ TakesFailureFor("original") =>
          /\ original_mod' = NoModInfo
          /\ replacement_mod' = replacement_mod
    /\ TakesFailureFor("replacement") =>
          /\ replacement_mod' = NoModInfo
          /\ original_mod' = original_mod

\* C39: when the manager takes a lookup failure reported for the original
\* mod from the queue, original_mod becomes None and replacement_mod stays
\* as it is, and for a failure reported for the replacement the converse,
\* whether the failure comes from the load of an existing relationship or
\* from the load of a single mod.
C39_FailureClearsItsSlot == [][C39_Step]_vars

\* the replacement 201 was loaded, then the original 999 of an existing
\* relationship was fetched and is not in the database: the failure for the
\* original has been taken and the replacement slot is empty
C39_Witness ==
    /\ replacements_file.mods = <<MappingEntry(AbsentId, ReplacementId)>>
    /\ fetch_clicks = 2
    /\ Len(replacer_queue) = 1
    /\ replacer_queue[1].msg_type = "success"
    /\ replacer_queue[1].panel_type = "replacement"
    /\ original_mod = NoModInfo
    /\ replacement_mod = NoModInfo
    /\ ~managing_existing_relationship
=============================================================================
